---- MODULE Spec2Model ----
(***************************************************************************)
(* State-machine model of the MagicRoute backend (src/index.js and the     *)
(* DatabaseService of src/unnamed/part_000): the in-memory order ledger,   *)
(* the analytics recalculation, the order request handlers, persistence    *)
(* and the realtime events.                                                *)
(*                                                                         *)
(* JavaScript values are modelled as follows.                              *)
(*  - an object is a function from the names of the properties it has to   *)
(*    their values; a property the object lacks is not in the DOMAIN;      *)
(*  - a number is a record [nan, num, den]: NaN, or the exact rational     *)
(*    num/den in lowest terms (amounts are whole numbers in this model);   *)
(*  - a string that the code parses is a sequence of one-character         *)
(*    strings; a string that is only compared or used as a key is a        *)
(*    TLA+ string;                                                         *)
(*  - a timestamp property is a record [t, y, m, d, h]: t = "iso" for an   *)
(*    ISO-8601 UTC string of that date and hour, "null", "undef", or       *)
(*    "num" for a value that is not a string.                              *)
(***************************************************************************)
EXTENDS Integers, Sequences, FiniteSets, TLC

VARIABLES
    orders,         \* the in-memory order ledger (index.js:393)
    customers,      \* the in-memory customer collection
    dailySales,     \* in-memory derived collections
    weeklySales,
    predictions,
    reports,
    notifications,
    isConnected,    \* index.js:54
    db,             \* the document store: collection name -> sequence of records
    file,           \* the data file: collection name -> sequence of records
    jobs,           \* saveData calls whose storage writes are still in flight
    loadPc,         \* position of the start-up load (index.js:396-406)
    loadBuf,        \* the collections the start-up load has read so far, in order
    now,            \* the wall clock, in days after ClockBase; a run is too short for it to
                    \* advance, a later reading is a parameter of recalculateAnalytics
    tz,             \* the process's time-zone offset, in hours east of UTC
    trace,          \* observable effects of the most recent request, in order
    given,          \* the ledger the most recent recalculateAnalytics call was given
    early,          \* ledger-changing requests handled before the start-up load finished
    deleted,        \* the ids of the orders that delete requests have removed so far
    faultsLeft,     \* the storage writes that may still fail
    slots,          \* the saveData calls the model lets be in flight at once
    mapboxToken,    \* whether MAPBOX_TOKEN is set (index.js:687)
    geocode,        \* order id -> what geocoding that order's postcode will give
    routeRes,       \* the response of the most recent POST /api/optimize-route
    routeInput,     \* the orders that request was to optimise
    pc              \* "serve" for the server, "input"/"done" for a single recalculation

vars == <<orders, customers, dailySales, weeklySales, predictions, reports,
          notifications, isConnected, db, file, jobs, loadPc, loadBuf, now, tz, trace, given,
          early, deleted, faultsLeft, slots, mapboxToken, geocode, routeRes,
          routeInput, pc>>

\* the variables of route optimisation
routeVars == <<mapboxToken, geocode, routeRes, routeInput>>

-----------------------------------------------------------------------------
(* Bounds of the model *)

MaxOrders == 2      \* ledger length and order id up to which the server accepts a create
MaxJobs == 1        \* saveData calls in flight at once
MaxClock == 1       \* days by which a later reading of the wall clock is ahead
MaxLedger == 2      \* ledger length of a single recalculation
MaxEarly == 1       \* ledger-changing requests handled before the start-up load finished
MaxCustomers == 2   \* customers in the collection at once
MaxFaults == 1      \* storage writes that fail in a run with failing storage
MaxRoute == 2       \* orders of a route optimisation request
MaxOverlap == 2     \* saves in flight in a run with overlapping saves

-----------------------------------------------------------------------------
(* JavaScript numbers *)

RECURSIVE Gcd(_, _)
Gcd(a, b) == IF b = 0 THEN a ELSE Gcd(b, a % b)

Abs(n) == IF n < 0 THEN -n ELSE n

NaN == [nan |-> TRUE, num |-> 0, den |-> 1]

Num(n) == [nan |-> FALSE, num |-> n, den |-> 1]

\* num/den in lowest terms, den > 0
Ratio(n, d) ==
    LET g == Gcd(Abs(n), d)
    IN  [nan |-> FALSE, num |-> n \div g, den |-> d \div g]

\* a + b
Add(a, b) ==
    IF a.nan \/ b.nan THEN NaN
    ELSE Ratio(a.num * b.den + b.num * a.den, a.den * b.den)

\* a > b : false when either side is NaN
Gt(a, b) == ~a.nan /\ ~b.nan /\ a.num * b.den > b.num * a.den

\* a / k for a count k > 0
DivBy(a, k) == IF a.nan THEN NaN ELSE Ratio(a.num, a.den * k)

\* a * 1.1
Times11Over10(a) == IF a.nan THEN NaN ELSE Ratio(a.num * 11, a.den * 10)

\* x || 0 for a number x
NumOrZero(a) == IF a.nan \/ a.num = 0 THEN Num(0) ELSE a

-----------------------------------------------------------------------------
(* Strings that the code parses *)

Digits == <<"0", "1", "2", "3", "4", "5", "6", "7", "8", "9">>

IsDigit(c) == \E i \in 1..10 : Digits[i] = c

DigitVal(c) == (CHOOSE i \in 1..10 : Digits[i] = c) - 1

\* String(n) for a natural number n
RECURSIVE NatToString(_)
NatToString(n) ==
    IF n < 10 THEN <<Digits[n + 1]>>
    ELSE NatToString(n \div 10) \o <<Digits[(n % 10) + 1]>>

\* String(n).padStart(w, '0')
RECURSIVE PadStart(_, _)
PadStart(s, w) == IF Len(s) >= w THEN s ELSE PadStart(<<"0">> \o s, w)

\* the longest prefix of s made of digits
RECURSIVE DigitPrefix(_)
DigitPrefix(s) ==
    IF s = <<>> \/ ~IsDigit(Head(s)) THEN <<>>
    ELSE <<Head(s)>> \o DigitPrefix(Tail(s))

RECURSIVE DigitsValue(_, _)
DigitsValue(s, acc) ==
    IF s = <<>> THEN acc ELSE DigitsValue(Tail(s), acc * 10 + DigitVal(Head(s)))

\* parseInt(s) and parseFloat(s) of a string without a fraction: an optional
\* sign and the leading digits; NaN when there is no leading digit
ParseNumber(s) ==
    LET neg  == s # <<>> /\ Head(s) = "-"
        body == IF neg THEN Tail(s) ELSE s
        ds   == DigitPrefix(body)
    IN  IF ds = <<>> THEN NaN
        ELSE Num(IF neg THEN -DigitsValue(ds, 0) ELSE DigitsValue(ds, 0))

\* s.replace(c, '') : removes the first occurrence of c
RECURSIVE ReplaceFirst(_, _)
ReplaceFirst(s, c) ==
    IF s = <<>> THEN <<>>
    ELSE IF Head(s) = c THEN Tail(s)
    ELSE <<Head(s)>> \o ReplaceFirst(Tail(s), c)

\* s.replace(/c/g, '') : removes every occurrence of c
ReplaceAll(s, c) == SelectSeq(s, LAMBDA x : x # c)

-----------------------------------------------------------------------------
(* Property values *)

\* totalAmount: absent, a number, or a string
AmtUndef == [t |-> "undef", n |-> 0, s |-> <<>>]
AmtNum(k) == [t |-> "num", n |-> k, s |-> <<>>]
AmtStr(cs) == [t |-> "str", n |-> 0, s |-> cs]

\* timestamps
TsUndef == [t |-> "undef", y |-> 0, m |-> 0, d |-> 0, h |-> 0]
TsNull == [t |-> "null", y |-> 0, m |-> 0, d |-> 0, h |-> 0]
TsNumber == [t |-> "num", y |-> 0, m |-> 0, d |-> 0, h |-> 0]
Iso(y, m, d, h) == [t |-> "iso", y |-> y, m |-> m, d |-> d, h |-> h]

\* obj.f, with the given value standing for undefined
Get(obj, f, undef) == IF f \in DOMAIN obj THEN obj[f] ELSE undef

\* { ...a, ...b }
Spread(a, b) ==
    [f \in DOMAIN a \cup DOMAIN b |-> IF f \in DOMAIN b THEN b[f] ELSE a[f]]

\* parseFloat(order.totalAmount || 0)
parseAmount(order) ==
    LET a == Get(order, "totalAmount", AmtUndef)
    IN  CASE a.t = "undef" -> Num(0)
          [] a.t = "num"   -> Num(a.n)
          [] a.t = "str"   -> IF a.s = <<>> THEN Num(0) ELSE ParseNumber(a.s)

\* order.paymentMethod || 'Not Set'
methodOf(order) ==
    LET pm == Get(order, "paymentMethod", "")
    IN  IF pm = "" THEN "Not Set" ELSE pm

\* String(undefined), the key an absent shopName becomes
UndefinedKey == <<"u", "n", "d", "e", "f", "i", "n", "e", "d">>

\* order.shopName used as a property key
shopOf(order) == Get(order, "shopName", UndefinedKey)

\* order.status; the empty string stands for a missing status
statusOf(order) == Get(order, "status", "")

-----------------------------------------------------------------------------
(* Dates *)

IsLeap(y) == (y % 4 = 0 /\ y % 100 # 0) \/ y % 400 = 0

DaysInMonth(y, m) ==
    CASE m = 2 -> IF IsLeap(y) THEN 29 ELSE 28
      [] m \in {4, 6, 9, 11} -> 30
      [] OTHER -> 31

LeapsBefore(y) == ((y - 1) \div 4) - ((y - 1) \div 100) + ((y - 1) \div 400)

\* days from 1970-01-01 to the first of January of year y
DaysBeforeYear(y) == 365 * (y - 1970) + LeapsBefore(y) - LeapsBefore(1970)

RECURSIVE DaysBeforeMonth(_, _)
DaysBeforeMonth(y, m) ==
    IF m = 1 THEN 0 ELSE DaysBeforeMonth(y, m - 1) + DaysInMonth(y, m - 1)

\* Date.UTC(y, m - 1, d) / 86400000
EpochDay(y, m, d) == DaysBeforeYear(y) + DaysBeforeMonth(y, m) + d - 1

Years == 2020..2030

\* the calendar date of an epoch day
CivilFromDays(n) ==
    LET y == CHOOSE yy \in Years : DaysBeforeYear(yy) <= n /\ n < DaysBeforeYear(yy + 1)
        r == n - DaysBeforeYear(y)
        m == CHOOSE mm \in 1..12 :
                 DaysBeforeMonth(y, mm) <= r /\ r < DaysBeforeMonth(y, mm) + DaysInMonth(y, mm)
    IN  [y |-> y, m |-> m, d |-> r - DaysBeforeMonth(y, m) + 1]

\* Date.prototype.getUTCDay of an epoch day: 0 is Sunday
UTCDay(n) == (n + 4) % 7

\* "YYYY-MM-DD"
DateString(y, m, d) ==
    PadStart(NatToString(y), 4) \o <<"-">> \o PadStart(NatToString(m), 2)
        \o <<"-">> \o PadStart(NatToString(d), 2)

\* order.createdAt.split('T')[0] of an ISO string
datePart(ts) == DateString(ts.y, ts.m, ts.d)

\* the epoch day of date.getFullYear(), date.getMonth(), date.getDate():
\* the calendar day of the instant in the process's time zone
LocalEpochDay(ts, zone) == EpochDay(ts.y, ts.m, ts.d) + ((ts.h + zone) \div 24)

\* the wall clock: new Date().toISOString()
ClockBase == Iso(2023, 12, 31, 22)

nowIso(clock) ==
    LET c == CivilFromDays(EpochDay(ClockBase.y, ClockBase.m, ClockBase.d) + clock)
    IN  Iso(c.y, c.m, c.d, ClockBase.h)

\* a deviation of getWeekNumber: `|| 7` is missing, so a Sunday counts as day 0 of
\* the week that follows it
getWeekNumberSundayFirst(ts, zone) ==
    LET d0        == LocalEpochDay(ts, zone)
        dayNum    == UTCDay(d0)
        d         == d0 + 4 - dayNum
        year      == CivilFromDays(d).y
        yearStart == DaysBeforeYear(year)
        weekNo    == ((d - yearStart) + 1 + 6) \div 7
    IN  NatToString(year) \o <<"-", "W">> \o NatToString(weekNo)

\* getWeekNumber(new Date(createdAt)): `${year}-W${week}`
getWeekNumber(ts, zone) ==
    LET d0        == LocalEpochDay(ts, zone)
        dayNum    == IF UTCDay(d0) = 0 THEN 7 ELSE UTCDay(d0)
        d         == d0 + 4 - dayNum
        year      == CivilFromDays(d).y
        yearStart == DaysBeforeYear(year)
        weekNo    == ((d - yearStart) + 1 + 6) \div 7
    IN  NatToString(year) \o <<"-", "W">> \o NatToString(weekNo)

-----------------------------------------------------------------------------
(* recalculateAnalytics (index.js:156-317) *)

\* the distinct elements of a sequence, in the order of their first occurrence:
\* the insertion order of the keys of an object filled in that order
RECURSIVE InsertionKeys(_)
InsertionKeys(s) ==
    IF s = <<>> THEN <<>>
    ELSE LET init == InsertionKeys(SubSeq(s, 1, Len(s) - 1))
             last == s[Len(s)]
         IN  IF \E i \in 1..Len(init) : init[i] = last THEN init ELSE Append(init, last)

\* a canonical array index: "0", or digits without a leading zero
IsIntegerKey(k) ==
    /\ k # <<>>
    /\ \A i \in 1..Len(k) : IsDigit(k[i])
    /\ (Len(k) = 1 \/ k[1] # "0")

RECURSIVE SortByValue(_)
SortByValue(s) ==
    IF s = <<>> THEN <<>>
    ELSE LET i == CHOOSE j \in 1..Len(s) :
                      \A l \in 1..Len(s) : DigitsValue(s[j], 0) <= DigitsValue(s[l], 0)
         IN  <<s[i]>> \o SortByValue(SubSeq(s, 1, i - 1) \o SubSeq(s, i + 1, Len(s)))

\* Object.keys(obj) of an object whose keys were inserted in the order s:
\* integer keys ascending, then the other keys in insertion order
ObjectKeys(s) ==
    LET ks == InsertionKeys(s)
    IN  SortByValue(SelectSeq(ks, IsIntegerKey))
            \o SelectSeq(ks, LAMBDA k : ~IsIntegerKey(k))

\* an order is bucketed when its createdAt is truthy (index.js:164)
hasCreatedAt(order) == Get(order, "createdAt", TsUndef).t \in {"iso", "num"}

\* createdAt.split is not a function: the forEach callback throws (index.js:165)
recalcThrows(ledger) ==
    \E i \in 1..Len(ledger) : Get(ledger[i], "createdAt", TsUndef).t = "num"

dateKey(order) == datePart(order.createdAt)

weekKey(order, zone) == getWeekNumber(order.createdAt, zone)

\* dayOrders.reduce((sum, order) => sum + parseFloat(order.totalAmount || 0), 0)
RECURSIVE sumRevenue(_)
sumRevenue(members) ==
    IF members = <<>> THEN Num(0)
    ELSE Add(sumRevenue(SubSeq(members, 1, Len(members) - 1)),
             parseAmount(members[Len(members)]))

\* a deviation of countStatus: an order that is not in one of the three counted
\* statuses is counted as pending
countStatusLoose(members, status) ==
    Len(SelectSeq(members, LAMBDA o :
            \/ statusOf(o) = status
            \/ (status = "Pending" /\ statusOf(o) \notin {"Delivered", "In Process"})))

countStatus(members, status) ==
    Len(SelectSeq(members, LAMBDA o : statusOf(o) = status))

BreakdownKeys == {"Balance", "Cash", "Card", "Bank"}

\* a deviation of breakdownKey: the 'Bank Transfer' branch is missing
breakdownKeyNoTransfer(order) ==
    LET method == methodOf(order)
    IN  IF method \in BreakdownKeys THEN method ELSE ""

\* a deviation of breakdownKey: an unrecognised method is booked as Cash
breakdownKeyCatchAll(order) ==
    LET method == methodOf(order)
    IN  IF method = "Bank Transfer" THEN "Bank"
        ELSE IF method \in BreakdownKeys THEN method
        ELSE "Cash"

\* the key of paymentBreakdown an order adds to, "" when it adds to none
\* (index.js:192-198)
breakdownKey(order) ==
    LET method == methodOf(order)
    IN  IF method = "Bank Transfer" THEN "Bank"
        ELSE IF method \in BreakdownKeys THEN method
        ELSE ""

RECURSIVE paymentBreakdownOf(_)
paymentBreakdownOf(members) ==
    IF members = <<>> THEN [k \in BreakdownKeys |-> Num(0)]
    ELSE LET pb    == paymentBreakdownOf(SubSeq(members, 1, Len(members) - 1))
             order == members[Len(members)]
             key   == breakdownKey(order)
         IN  IF key = "" THEN pb
             ELSE [pb EXCEPT ![key] = Add(pb[key], parseAmount(order))]

\* shopRevenue[shop] after the forEach of index.js:203-206:
\* shopRevenue[shop] = (shopRevenue[shop] || 0) + parseFloat(order.totalAmount || 0)
RECURSIVE shopRevenueOf(_, _)
shopRevenueOf(members, shop) ==
    IF members = <<>> THEN Num(0)
    ELSE LET before == shopRevenueOf(SubSeq(members, 1, Len(members) - 1), shop)
             order  == members[Len(members)]
         IN  IF shopOf(order) = shop
             THEN Add(NumOrZero(before), parseAmount(order))
             ELSE before

shopKeys(members) == ObjectKeys([i \in 1..Len(members) |-> shopOf(members[i])])

NotAvailable == <<"N", "/", "A">>

\* shopRevenue[a] for a key or for the initial value 'N/A': undefined compares as NaN
revenueOfKey(members, k) ==
    IF \E i \in 1..Len(members) : shopOf(members[i]) = k
    THEN shopRevenueOf(members, k)
    ELSE NaN

\* a deviation of pickShop: the comparison is >= instead of >
pickShopGe(members, a, b) ==
    LET ra == revenueOfKey(members, a)
        rb == revenueOfKey(members, b)
    IN  IF ~ra.nan /\ ~rb.nan /\ ~Gt(rb, ra) THEN a ELSE b

\* (a, b) => shopRevenue[a] > shopRevenue[b] ? a : b
pickShop(members, a, b) ==
    IF Gt(revenueOfKey(members, a), revenueOfKey(members, b)) THEN a ELSE b

\* Object.keys(shopRevenue).reduce(pickShop, 'N/A')
RECURSIVE reduceShops(_, _)
reduceShops(members, keys) ==
    IF keys = <<>> THEN NotAvailable
    ELSE pickShop(members,
                  reduceShops(members, SubSeq(keys, 1, Len(keys) - 1)),
                  keys[Len(keys)])

topShopOf(members) == reduceShops(members, shopKeys(members))

\* the metrics shared by a day bucket and a week bucket
\* (index.js:183-210 and, word for word, 230-257)
aggregate(members) ==
    LET totalRevenue == sumRevenue(members)
        totalOrders  == Len(members)
        topShop      == topShopOf(members)
    IN  [totalRevenue      |-> totalRevenue,
         totalOrders       |-> totalOrders,
         deliveredOrders   |-> countStatus(members, "Delivered"),
         pendingOrders     |-> countStatus(members, "Pending"),
         inProcessOrders   |-> countStatus(members, "In Process"),
         averageOrderValue |-> IF totalOrders > 0 THEN DivBy(totalRevenue, totalOrders)
                               ELSE Num(0),
         topShop           |-> topShop,
         topShopRevenue    |-> NumOrZero(revenueOfKey(members, topShop)),
         paymentBreakdown  |-> paymentBreakdownOf(members)]

\* id: parseInt(date.replace(/-/g, ''))
dailyId(date) == ParseNumber(ReplaceAll(date, "-"))

\* id: parseInt(week.replace('W', ''))
weeklyId(week) == ParseNumber(ReplaceFirst(week, "W"))

\* a deviation of bucketed: cancelled orders are left out of the buckets
bucketedNotCancelled(ledger) ==
    SelectSeq(ledger, LAMBDA o : hasCreatedAt(o) /\ statusOf(o) # "Cancelled")

\* the orders the forEach of index.js:163-178 pushes into a bucket
bucketed(ledger) == SelectSeq(ledger, hasCreatedAt)

dailySalesOf(ledger) ==
    LET members == bucketed(ledger)
        keys    == InsertionKeys([i \in 1..Len(members) |-> dateKey(members[i])])
    IN  [i \in 1..Len(keys) |->
            Spread([id |-> dailyId(keys[i]), date |-> keys[i]],
                   aggregate(SelectSeq(members, LAMBDA o : dateKey(o) = keys[i])))]

weeklySalesOf(ledger, zone) ==
    LET members == bucketed(ledger)
        keys    == InsertionKeys([i \in 1..Len(members) |-> weekKey(members[i], zone)])
    IN  [i \in 1..Len(keys) |->
            Spread([id |-> weeklyId(keys[i]), week |-> keys[i]],
                   aggregate(SelectSeq(members, LAMBDA o : weekKey(o, zone) = keys[i])))]

FallbackPrediction == 850

Confidence == 85

\* a deviation of predictionsOf: the forecast starts from the first day bucket
predictionsOfFirstDay(daily) ==
    << [id             |-> 1,
        type           |-> "revenue",
        timeframe      |-> "tomorrow",
        predictedValue |-> IF Len(daily) > 0
                           THEN Times11Over10(daily[1].totalRevenue)
                           ELSE Num(FallbackPrediction),
        confidence     |-> Confidence] >>

predictionsOf(daily) ==
    << [id             |-> 1,
        type           |-> "revenue",
        timeframe      |-> "tomorrow",
        predictedValue |-> IF Len(daily) > 0
                           THEN Times11Over10(daily[Len(daily)].totalRevenue)
                           ELSE Num(FallbackPrediction),
        confidence     |-> Confidence] >>

\* a deviation of reportsOf: the report summarises the bucket of the current week
reportsOfCurrentWeek(weekly, clock) ==
    LET wk     == getWeekNumber(nowIso(clock), 0)
        idx    == {i \in 1..Len(weekly) : weekly[i].week = wk}
        has    == idx # {}
        latest == weekly[CHOOSE i \in idx : TRUE]
    IN  << [id                |-> 1,
            type              |-> "comprehensive",
            date              |-> datePart(nowIso(clock)),
            totalRevenue      |-> IF has THEN NumOrZero(latest.totalRevenue) ELSE Num(0),
            totalOrders       |-> IF has THEN latest.totalOrders ELSE 0,
            averageOrderValue |-> IF has THEN NumOrZero(latest.averageOrderValue) ELSE Num(0),
            topShop           |-> IF has /\ latest.topShop # <<>> THEN latest.topShop
                                  ELSE NotAvailable,
            paymentBreakdown  |-> IF has THEN latest.paymentBreakdown
                                  ELSE [k \in BreakdownKeys |-> Num(0)]] >>

reportsOf(weekly, clock) ==
    LET has    == Len(weekly) > 0
        latest == weekly[Len(weekly)]
    IN  << [id                |-> 1,
            type              |-> "comprehensive",
            date              |-> datePart(nowIso(clock)),
            totalRevenue      |-> IF has THEN NumOrZero(latest.totalRevenue) ELSE Num(0),
            totalOrders       |-> IF has THEN latest.totalOrders ELSE 0,
            averageOrderValue |-> IF has THEN NumOrZero(latest.averageOrderValue) ELSE Num(0),
            topShop           |-> IF has /\ latest.topShop # <<>> THEN latest.topShop
                                  ELSE NotAvailable,
            paymentBreakdown  |-> IF has THEN latest.paymentBreakdown
                                  ELSE [k \in BreakdownKeys |-> Num(0)]] >>

\* a deviation of notificationsOf: the notification is about the last order that
\* is Delivered, wherever it is in the ledger
notificationsOfAnyDelivered(ledger, clock) ==
    LET delivered   == SelectSeq(ledger, LAMBDA o : statusOf(o) = "Delivered")
        latestOrder == delivered[Len(delivered)]
        deliveredAt == Get(latestOrder, "deliveredAt", TsUndef)
    IN  IF Len(delivered) > 0
        THEN << [id        |-> 1,
                 type      |-> "order_update",
                 message   |-> <<"Order #">> \o NatToString(latestOrder.id)
                                   \o <<" delivered successfully">>,
                 timestamp |-> IF deliveredAt.t \in {"iso", "num"} THEN deliveredAt
                               ELSE nowIso(clock),
                 read      |-> FALSE] >>
        ELSE <<>>

notificationsOf(ledger, clock) ==
    LET latestOrder == ledger[Len(ledger)]
        deliveredAt == Get(latestOrder, "deliveredAt", TsUndef)
    IN  IF Len(ledger) > 0 /\ statusOf(latestOrder) = "Delivered"
        THEN << [id        |-> 1,
                 type      |-> "order_update",
                 message   |-> <<"Order #">> \o NatToString(latestOrder.id)
                                   \o <<" delivered successfully">>,
                 timestamp |-> IF deliveredAt.t \in {"iso", "num"} THEN deliveredAt
                               ELSE nowIso(clock),
                 read      |-> FALSE] >>
        ELSE <<>>

\* the value recalculateAnalytics(orders) returns at wall-clock time `clock` in a
\* process of time zone `zone`; threw: the call ended in a TypeError instead
recalculateAnalytics(ledger, clock, zone) ==
    IF recalcThrows(ledger)
    THEN [threw |-> TRUE, dailySales |-> <<>>, weeklySales |-> <<>>,
          predictions |-> <<>>, reports |-> <<>>, notifications |-> <<>>]
    ELSE LET daily  == dailySalesOf(ledger)
             weekly == weeklySalesOf(ledger, zone)
         IN  [threw         |-> FALSE,
              dailySales    |-> daily,
              weeklySales   |-> weekly,
              predictions   |-> predictionsOf(daily),
              reports       |-> reportsOf(weekly, clock),
              notifications |-> notificationsOf(ledger, clock)]

-----------------------------------------------------------------------------
(* A single recalculation: the ledger is drawn from bounded sets and          *)
(* recalculateAnalytics is applied to it once.                                *)

Collections ==
    <<"orders", "customers", "dailySales", "weeklySales", "predictions", "reports",
      "notifications">>

EmptyStore == [c \in {Collections[i] : i \in 1..Len(Collections)} |-> <<>>]

TimeZones == {0, 2}

Shape(shop, amount, method, status, createdAt) ==
    [shopName |-> shop, totalAmount |-> amount, paymentMethod |-> method,
     status |-> status, createdAt |-> createdAt, deliveredAt |-> TsNull]

\* the orders a ledger is drawn from: shops that tie, an integer-like shop name,
\* every payment method the code distinguishes, amounts that are numbers, numeric
\* and non-numeric strings, zero, negative and absent, every status, dates in
\* different ISO weeks and years, and orders without a usable createdAt
OrderShapes ==
    { Shape(<<"A">>, AmtNum(10), "Cash", "Pending", Iso(2024, 1, 2, 10)),
      Shape(<<"B">>, AmtNum(10), "Card", "Delivered", Iso(2024, 1, 2, 10)),
      Shape(<<"B">>, AmtNum(20), "Bank Transfer", "In Process", Iso(2024, 1, 2, 10)),
      Shape(<<"7">>, AmtNum(10), "Bank", "Cancelled", Iso(2024, 1, 2, 10)),
      Shape(<<"A">>, AmtNum(10), "Crypto", "Pending", Iso(2024, 2, 12, 10)),
      Shape(<<"A">>, AmtNum(0), "", "Pending", Iso(2024, 1, 2, 10)),
      Shape(<<"A">>, AmtStr(<<"a", "b", "c">>), "Cash", "Pending", Iso(2024, 1, 2, 10)),
      Shape(<<"B">>, AmtStr(<<"1", "0">>), "Balance", "Pending", Iso(2023, 12, 31, 22)),
      Shape(<<"A">>, AmtNum(20), "Cash", "Delivered", Iso(2024, 12, 30, 10)),
      Shape(<<"A">>, AmtNum(-5), "Crypto", "Pending", Iso(2024, 1, 2, 10)),
      [shopName |-> <<"B">>, paymentMethod |-> "Cash", status |-> "Delivered",
       createdAt |-> Iso(2024, 2, 12, 10), deliveredAt |-> Iso(2024, 2, 13, 10)],
      [shopName |-> <<"A">>, totalAmount |-> AmtNum(10), paymentMethod |-> "Cash",
       status |-> "Pending"],
      Shape(<<"A">>, AmtNum(10), "Cash", "Pending", TsNumber) }

\* no route has been asked for
NoRouteResponse == [status |-> 0, route |-> <<>>, totalDistance |-> 0, message |-> ""]

NoRouteRequest ==
    /\ mapboxToken = FALSE
    /\ geocode = <<>>
    /\ routeRes = NoRouteResponse
    /\ routeInput = <<>>

InitRecalc ==
    /\ \E n \in 0..MaxLedger : \E f \in [1..n -> OrderShapes] :
           orders = [i \in 1..n |-> Spread(f[i], [id |-> i])]
    /\ tz \in TimeZones
    /\ now = 0
    /\ pc = "input"
    /\ customers = <<>>
    /\ dailySales = <<>>
    /\ weeklySales = <<>>
    /\ predictions = <<>>
    /\ reports = <<>>
    /\ notifications = <<>>
    /\ isConnected = FALSE
    /\ db = EmptyStore
    /\ file = EmptyStore
    /\ jobs = <<>>
    /\ loadPc = "done"
    /\ loadBuf = <<>>
    /\ trace = <<>>
    /\ given = <<>>
    /\ early = 0
    /\ deleted = {}
    /\ faultsLeft = 0
    /\ slots = MaxJobs
    /\ NoRouteRequest

\* const { dailySales, ... } = recalculateAnalytics(orders)
Recalculate ==
    /\ pc = "input"
    /\ given' = orders
    /\ \E r \in {recalculateAnalytics(orders, now, tz)} :
           IF r.threw
           THEN /\ pc' = "threw"
                /\ UNCHANGED <<dailySales, weeklySales, predictions, reports, notifications>>
           ELSE /\ pc' = "done"
                /\ dailySales' = r.dailySales
                /\ weeklySales' = r.weeklySales
                /\ predictions' = r.predictions
                /\ reports' = r.reports
                /\ notifications' = r.notifications
    /\ UNCHANGED <<orders, customers, isConnected, db, file, jobs, loadPc, loadBuf, now, tz,
                   trace, early, deleted, faultsLeft, slots, routeVars>>

NextRecalc == Recalculate

SpecRecalc == InitRecalc /\ [][NextRecalc]_vars

\* the years whose days the week keys are computed for
WeekYears == 2021..2028

\* one order for every day of WeekYears, created late in the evening (UTC), so
\* that east of Greenwich its local calendar day is the next one
InitWeek ==
    /\ \E y \in WeekYears, m \in 1..12 : \E d \in 1..DaysInMonth(y, m) :
           orders = << Spread(Shape(<<"A">>, AmtNum(10), "Cash", "Pending", Iso(y, m, d, 22)),
                              [id |-> 1]) >>
    /\ tz \in TimeZones
    /\ now = 0
    /\ pc = "input"
    /\ customers = <<>>
    /\ dailySales = <<>>
    /\ weeklySales = <<>>
    /\ predictions = <<>>
    /\ reports = <<>>
    /\ notifications = <<>>
    /\ isConnected = FALSE
    /\ db = EmptyStore
    /\ file = EmptyStore
    /\ jobs = <<>>
    /\ loadPc = "done"
    /\ loadBuf = <<>>
    /\ trace = <<>>
    /\ given = <<>>
    /\ early = 0
    /\ deleted = {}
    /\ faultsLeft = 0
    /\ slots = MaxJobs
    /\ NoRouteRequest

SpecWeek == InitWeek /\ [][NextRecalc]_vars

-----------------------------------------------------------------------------
(* The server: start-up load, order requests, persistence, realtime events *)

\* the in-memory collections, as the object every handler passes to saveData
MemStore ==
    [orders |-> orders, customers |-> customers, dailySales |-> dailySales,
     weeklySales |-> weeklySales, predictions |-> predictions, reports |-> reports,
     notifications |-> notifications]

\* a store left by an earlier run of the program: one delivered order and the
\* collections derived from it
SeedOrder ==
    [id |-> 1, shopName |-> <<"A">>, totalAmount |-> AmtNum(10), paymentMethod |-> "Cash",
     status |-> "Delivered", createdAt |-> Iso(2023, 12, 29, 10),
     deliveredAt |-> Iso(2023, 12, 29, 12), deliveryNotes |-> "", basketNo |-> 1,
     deliveryNo |-> <<"D", "0", "0", "1">>]

SeededStore(zone) ==
    CHOOSE s \in { [orders |-> <<SeedOrder>>, customers |-> <<>>,
                    dailySales |-> r.dailySales, weeklySales |-> r.weeklySales,
                    predictions |-> r.predictions, reports |-> r.reports,
                    notifications |-> r.notifications] :
                   r \in {recalculateAnalytics(<<SeedOrder>>, 0, zone)} } : TRUE

InitialStores(zone) == {EmptyStore, SeededStore(zone)}

\* the state when the module has been loaded (index.js:393-406, 1877-1881): with
\* MONGODB_URI set the load is waiting for dbService.connect(); without it
\* loadData has read the data file and its result has been assigned before the
\* first request is accepted
Init ==
    /\ tz \in TimeZones
    /\ now = 0
    /\ pc = "serve"
    /\ isConnected = FALSE
    /\ jobs = <<>>
    /\ loadBuf = <<>>
    /\ trace = <<>>
    /\ given = <<>>
    /\ early = 0
    /\ deleted = {}
    /\ faultsLeft = 0
    /\ slots = MaxJobs
    /\ NoRouteRequest
    /\ \E store \in InitialStores(tz) :
           \/ /\ loadPc = "connect"
              /\ db = store
              /\ file = EmptyStore
              /\ orders = <<>>
              /\ customers = <<>>
              /\ dailySales = <<>>
              /\ weeklySales = <<>>
              /\ predictions = <<>>
              /\ reports = <<>>
              /\ notifications = <<>>
           \/ /\ loadPc = "done"
              /\ db = EmptyStore
              /\ file = store
              /\ orders = store.orders
              /\ customers = store.customers
              /\ dailySales = store.dailySales
              /\ weeklySales = store.weeklySales
              /\ predictions = store.predictions
              /\ reports = store.reports
              /\ notifications = store.notifications

\* await dbService.connect(); isConnected = true (index.js:68-72)
LoadConnect ==
    /\ pc = "serve"
    /\ loadPc = "connect"
    /\ isConnected' = TRUE
    /\ loadPc' = "read"
    /\ trace' = <<>>
    /\ UNCHANGED <<orders, customers, dailySales, weeklySales, predictions, reports,
                   notifications, db, file, jobs, loadBuf, now, tz, given, early,
                   deleted, faultsLeft, slots, routeVars, pc>>

\* const orders = await dbService.getOrders(); ... one collection per await
\* (index.js:81-87)
LoadRead ==
    /\ pc = "serve"
    /\ loadPc = "read"
    /\ loadBuf' = Append(loadBuf, db[Collections[Len(loadBuf) + 1]])
    /\ loadPc' = IF Len(loadBuf) + 1 = Len(Collections) THEN "assign" ELSE "read"
    /\ trace' = <<>>
    /\ UNCHANGED <<orders, customers, dailySales, weeklySales, predictions, reports,
                   notifications, isConnected, db, file, jobs, now, tz, given, early,
                   deleted, faultsLeft, slots, routeVars, pc>>

\* a saveData call in flight holds the object it was given: the global arrays,
\* until the load replaces them, and from then on what they held
Detach(job) == IF job.live THEN [job EXCEPT !.live = FALSE, !.data = MemStore] ELSE job

\* orders = data.orders; ... (index.js:397-405)
LoadAssign ==
    /\ pc = "serve"
    /\ loadPc = "assign"
    /\ orders' = loadBuf[1]
    /\ customers' = loadBuf[2]
    /\ dailySales' = loadBuf[3]
    /\ weeklySales' = loadBuf[4]
    /\ predictions' = loadBuf[5]
    /\ reports' = loadBuf[6]
    /\ notifications' = loadBuf[7]
    /\ jobs' = [j \in 1..Len(jobs) |-> Detach(jobs[j])]
    /\ loadBuf' = <<>>
    /\ loadPc' = "done"
    /\ trace' = <<>>
    /\ UNCHANGED <<isConnected, db, file, now, tz, given, early, deleted, faultsLeft,
                   slots, routeVars, pc>>

\* what a job writes to collection c: the array the saveData argument holds
Content(job, c) == IF job.live THEN MemStore[c] ELSE job.data[c]

\* originalSaveData(data) up to its first await (index.js:348-352): the first
\* deleteMany has been sent and nothing has been written
NewJob == [coll |-> 1, phase |-> "del", live |-> TRUE, data |-> EmptyStore, ins |-> <<>>]

\* the deleteMany calls of a job that have not completed
DeletesPending(job) ==
    Len(Collections) - job.coll + (IF job.phase = "del" THEN 1 ELSE 0)

\* one storage write of DatabaseService.saveX completes (part_000:42-54) and
\* saveData goes on to the next call (index.js:352-358)
DbWrite(j) ==
    /\ pc = "serve"
    /\ j \in 1..Len(jobs)
    /\ LET job  == jobs[j]
           c    == Collections[job.coll]
           rest == SubSeq(jobs, 1, j - 1) \o SubSeq(jobs, j + 1, Len(jobs))
           next == [job EXCEPT !.coll = job.coll + 1, !.phase = "del", !.ins = <<>>]
       IN  \/ /\ job.phase = "del"
              /\ db' = [db EXCEPT ![c] = <<>>]
              /\ IF Len(Content(job, c)) > 0
                 THEN jobs' = [jobs EXCEPT ![j] = [job EXCEPT !.phase = "ins",
                                                              !.ins = Content(job, c)]]
                 ELSE IF job.coll = Len(Collections)
                 THEN jobs' = rest
                 ELSE jobs' = [jobs EXCEPT ![j] = next]
           \/ /\ job.phase = "ins"
              /\ db' = [db EXCEPT ![c] = db[c] \o job.ins]
              /\ IF job.coll = Len(Collections)
                 THEN jobs' = rest
                 ELSE jobs' = [jobs EXCEPT ![j] = next]
    /\ trace' = <<>>
    /\ UNCHANGED <<orders, customers, dailySales, weeklySales, predictions, reports,
                   notifications, isConnected, file, loadPc, loadBuf, now, tz, given, early,
                   deleted, faultsLeft, slots, routeVars, pc>>

\* a storage call of DatabaseService.saveX throws; the catch block logs the error
\* and returns false (part_000:50-53), and saveData, which does not look at the
\* result, goes on to the next collection (index.js:352-358). A deleteMany that
\* fails leaves the collection as it was and the insertMany is not attempted; an
\* insertMany that fails may have inserted some of the first records
DbWriteFails(j) ==
    /\ pc = "serve"
    /\ faultsLeft > 0
    /\ j \in 1..Len(jobs)
    /\ LET job  == jobs[j]
           c    == Collections[job.coll]
           rest == SubSeq(jobs, 1, j - 1) \o SubSeq(jobs, j + 1, Len(jobs))
           next == [job EXCEPT !.coll = job.coll + 1, !.phase = "del", !.ins = <<>>]
       IN  /\ \/ /\ job.phase = "del"
                 /\ db' = db
              \/ /\ job.phase = "ins"
                 /\ \E k \in 0..(Len(job.ins) - 1) :
                        db' = [db EXCEPT ![c] = db[c] \o SubSeq(job.ins, 1, k)]
           /\ IF job.coll = Len(Collections)
              THEN jobs' = rest
              ELSE jobs' = [jobs EXCEPT ![j] = next]
    /\ faultsLeft' = faultsLeft - 1
    /\ trace' = <<>>
    /\ UNCHANGED <<orders, customers, dailySales, weeklySales, predictions, reports,
                   notifications, isConnected, file, loadPc, loadBuf, now, tz, given, early,
                   deleted, slots, routeVars, pc>>

\* an entry of the trace of a request
Effect(kind, op, orderId, status, pending) ==
    [kind |-> kind, op |-> op, orderId |-> orderId, status |-> status,
     writesPending |-> pending]

\* the handler's effects from the recalculation on (index.js:531-552, 596-618,
\* 637-659): the derived collections are replaced, saveData(...) is called, which
\* is `originalSaveData(data); broadcastUpdate();` (index.js:1878-1881), then
\* io.emit('order-updated', ...), then the response. pending: the storage writes of
\* this saveData call that are outstanding when it returns
effectsDeviant(op, reqId, orderId, status, pending) ==
    << Effect("request", op, reqId, 0, 0),
       Effect("order-updated", op, orderId, 0, pending),
       Effect("recalculated", op, 0, 0, 0),
       Effect("data-update", op, 0, 0, pending),
       Effect("response", op, 0, status, 0) >>

successEffects(op, reqId, orderId, status, pending) ==
    << Effect("request", op, reqId, 0, 0),
       Effect("recalculated", op, 0, 0, 0),
       Effect("data-update", op, 0, 0, pending),
       Effect("order-updated", op, orderId, 0, pending),
       Effect("response", op, 0, status, 0) >>

\* a deviation of saveFailedEffects: the failure of the write reaches the
\* handler's catch block, which answers 500
saveFailedEffectsUncaught(op, reqId, orderId, status, pending) ==
    << Effect("request", op, reqId, 0, 0),
       Effect("recalculated", op, 0, 0, 0),
       Effect("save-failed", op, 0, 0, 0),
       Effect("response", op, 0, 500, 0) >>

\* the effects when fs.writeFileSync throws inside saveData: the catch block of
\* saveData logs the error (index.js:386-388) and the handler goes on as after a
\* save that succeeded
saveFailedEffects(op, reqId, orderId, status, pending) ==
    << Effect("request", op, reqId, 0, 0),
       Effect("recalculated", op, 0, 0, 0),
       Effect("save-failed", op, 0, 0, 0),
       Effect("data-update", op, 0, 0, pending),
       Effect("order-updated", op, orderId, 0, pending),
       Effect("response", op, 0, status, 0) >>

\* whether a write of the data file succeeds: it can fail while faults are left
WriteOutcomes == IF faultsLeft > 0 THEN BOOLEAN ELSE {TRUE}

\* return res.status(404).json(...) (index.js:571-574, 630-632)
notFoundEffects(op, reqId) ==
    << Effect("request", op, reqId, 0, 0), Effect("response", op, 0, 404, 0) >>

\* the catch block: res.status(500).json(...) (index.js:553-556)
errorEffects(op, reqId) ==
    << Effect("request", op, reqId, 0, 0), Effect("response", op, 0, 500, 0) >>

\* The part the three order handlers share: the ledger has been changed to
\* ledger1; recalculate, replace the derived collections in place, save,
\* broadcast, respond. When recalculateAnalytics throws, the catch block answers
\* 500 and the ledger stays changed.
Commit(op, reqId, orderId, status, ledger1) ==
    \E r \in {recalculateAnalytics(ledger1, now, tz)} :
        /\ orders' = ledger1
        /\ given' = ledger1
        /\ early' = IF loadPc = "done" THEN early ELSE early + 1
        /\ deleted' = IF op = "DELETE" THEN deleted \cup {orderId} ELSE deleted
        /\ IF r.threw
           THEN /\ trace' = errorEffects(op, reqId)
                /\ UNCHANGED <<dailySales, weeklySales, predictions, reports,
                               notifications, db, file, jobs, faultsLeft>>
           ELSE /\ dailySales' = r.dailySales
                /\ weeklySales' = r.weeklySales
                /\ predictions' = r.predictions
                /\ reports' = r.reports
                /\ notifications' = r.notifications
                /\ IF isConnected
                   THEN /\ jobs' = Append(jobs, NewJob)
                        /\ trace' = successEffects(op, reqId, orderId, status,
                                                   DeletesPending(NewJob))
                        /\ UNCHANGED <<db, file, faultsLeft>>
                   ELSE \E written \in WriteOutcomes :
                        /\ IF written
                           THEN /\ file' = [MemStore EXCEPT
                                               !.orders = ledger1,
                                               !.dailySales = r.dailySales,
                                               !.weeklySales = r.weeklySales,
                                               !.predictions = r.predictions,
                                               !.reports = r.reports,
                                               !.notifications = r.notifications]
                                /\ trace' = successEffects(op, reqId, orderId, status, 0)
                                /\ UNCHANGED faultsLeft
                           ELSE /\ file' = file
                                /\ trace' = saveFailedEffects(op, reqId, orderId, status, 0)
                                /\ faultsLeft' = faultsLeft - 1
                        /\ UNCHANGED <<db, jobs>>
        /\ UNCHANGED <<customers, isConnected, loadPc, loadBuf, now, tz, slots, routeVars, pc>>

\* a request that changes nothing but the trace
Refuse(effects) ==
    /\ trace' = effects
    /\ UNCHANGED <<orders, customers, dailySales, weeklySales, predictions, reports,
                   notifications, isConnected, db, file, jobs, loadPc, loadBuf, now, tz,
                   given, early,
                   deleted, faultsLeft, slots, routeVars, pc>>

\* the model handles a ledger-changing request only while fewer than MaxJobs saves
\* are in flight, and during the start-up load only the first MaxEarly of them
CanSave ==
    /\ ~isConnected \/ Len(jobs) < slots
    /\ loadPc = "done" \/ early < MaxEarly

\* Math.max(...orders.map(order => order.id), 0)
maxId == LET ids == {orders[i].id : i \in 1..Len(orders)} \cup {0}
         IN  CHOOSE m \in ids : \A x \in ids : x <= m

\* req.body.paymentMethod || ''
bodyMethod(body) == Get(body, "paymentMethod", "")

PostBodies ==
    { [shopName |-> <<"B">>, totalAmount |-> AmtNum(10), paymentMethod |-> "Cash"] }

\* app.post('/api/orders') (index.js:513-557)
PostOrder(body) ==
    /\ pc = "serve"
    /\ Len(orders) < MaxOrders
    /\ maxId < MaxOrders
    /\ CanSave
    /\ LET newOrder ==
               Spread(Spread([id |-> maxId + 1], body),
                      [basketNo      |-> maxId + 1,
                       deliveryNo    |-> <<"D">> \o PadStart(NatToString(maxId + 1), 3),
                       status        |-> "Pending",
                       deliveryNotes |-> "",
                       createdAt     |-> nowIso(now),
                       deliveredAt   |-> TsNull,
                       paymentMethod |-> bodyMethod(body)])
       IN  Commit("POST", 0, newOrder.id, 201, Append(orders, newOrder))

\* orders.findIndex(order => order.id === id): 0 for -1
findIndex(id) ==
    IF \E i \in 1..Len(orders) : orders[i].id = id
    THEN CHOOSE i \in 1..Len(orders) :
             orders[i].id = id /\ \A k \in 1..(i - 1) : orders[k].id # id
    ELSE 0

PutBodies ==
    { [status |-> "Delivered", totalAmount |-> AmtNum(20)],
      [createdAt |-> TsNumber] }

\* ...(req.body.status === 'Delivered' && { deliveryNotes, deliveredAt })
deliveredFields(body) ==
    IF Get(body, "status", "") = "Delivered"
    THEN [deliveryNotes |-> Get(body, "deliveryNotes", ""),
          deliveredAt   |-> IF Get(body, "deliveredAt", TsUndef).t \in {"iso", "num"}
                            THEN body.deliveredAt ELSE nowIso(now)]
    ELSE <<>>

\* app.put('/api/orders/:id') (index.js:559-623)
PutOrder(id, body) ==
    /\ pc = "serve"
    /\ LET orderIndex == findIndex(id)
       IN  IF orderIndex = 0
           THEN Refuse(notFoundEffects("PUT", id))
           ELSE /\ CanSave
                /\ LET updatedOrder ==
                           Spread(Spread(Spread(orders[orderIndex], body),
                                         deliveredFields(body)),
                                  [paymentMethod |-> bodyMethod(body)])
                   IN  Commit("PUT", id, id, 200,
                              [orders EXCEPT ![orderIndex] = updatedOrder])

\* app.delete('/api/orders/:id') (index.js:625-664)
DeleteOrder(id) ==
    /\ pc = "serve"
    /\ LET orderIndex == findIndex(id)
       IN  IF orderIndex = 0
           THEN Refuse(notFoundEffects("DELETE", id))
           ELSE /\ CanSave
                /\ Commit("DELETE", id, id, 200,
                          SubSeq(orders, 1, orderIndex - 1)
                              \o SubSeq(orders, orderIndex + 1, Len(orders)))

\* the ids a request may name: those the ledger can hold, and one more
RequestIds == 1..(MaxOrders + 1)

Next ==
    \/ LoadConnect
    \/ LoadRead
    \/ LoadAssign
    \/ \E j \in 1..MaxJobs : DbWrite(j)
    \/ \E body \in PostBodies : PostOrder(body)
    \/ \E id \in RequestIds, body \in PutBodies : PutOrder(id, body)
    \/ \E id \in RequestIds : DeleteOrder(id)

Spec == Init /\ [][Next]_vars

-----------------------------------------------------------------------------
(* The order requests on storage whose writes can fail *)

\* the server after its start-up load, on either backend, with MaxFaults storage
\* writes that may fail
InitFaulty ==
    /\ tz = 0
    /\ now = 0
    /\ pc = "serve"
    /\ loadPc = "done"
    /\ jobs = <<>>
    /\ loadBuf = <<>>
    /\ trace = <<>>
    /\ given = <<>>
    /\ early = 0
    /\ deleted = {}
    /\ faultsLeft = MaxFaults
    /\ slots = MaxJobs
    /\ NoRouteRequest
    /\ \E store \in InitialStores(tz) :
           /\ \/ isConnected = TRUE /\ db = store /\ file = EmptyStore
              \/ isConnected = FALSE /\ db = EmptyStore /\ file = store
           /\ orders = store.orders
           /\ customers = store.customers
           /\ dailySales = store.dailySales
           /\ weeklySales = store.weeklySales
           /\ predictions = store.predictions
           /\ reports = store.reports
           /\ notifications = store.notifications

NextFaulty ==
    \/ \E j \in 1..MaxJobs : DbWrite(j)
    \/ \E j \in 1..MaxJobs : DbWriteFails(j)
    \/ \E body \in PostBodies : PostOrder(body)
    \/ \E id \in RequestIds, body \in PutBodies : PutOrder(id, body)
    \/ \E id \in RequestIds : DeleteOrder(id)

SpecFaulty == InitFaulty /\ [][NextFaulty]_vars

-----------------------------------------------------------------------------
(* The customer requests (index.js:871-906) *)

\* saveData(...) from a customer handler, which recalculates nothing, then the
\* response: the wrapper starts the storage writes and broadcasts (index.js:1877-1881)
SaveCustomers(op, reqId, status, customers1) ==
    /\ customers' = customers1
    /\ IF isConnected
       THEN /\ jobs' = Append(jobs, NewJob)
            /\ trace' = << Effect("request", op, reqId, 0, 0),
                           Effect("data-update", op, 0, 0, DeletesPending(NewJob)),
                           Effect("response", op, 0, status, 0) >>
            /\ UNCHANGED <<db, file, faultsLeft>>
       ELSE /\ \E written \in WriteOutcomes :
                   /\ file' = IF written THEN [MemStore EXCEPT !.customers = customers1]
                              ELSE file
                   /\ faultsLeft' = IF written THEN faultsLeft ELSE faultsLeft - 1
            /\ trace' = << Effect("request", op, reqId, 0, 0),
                           Effect("data-update", op, 0, 0, 0),
                           Effect("response", op, 0, status, 0) >>
            /\ UNCHANGED <<db, jobs>>
    /\ UNCHANGED <<orders, dailySales, weeklySales, predictions, reports, notifications,
                   isConnected, loadPc, loadBuf, now, tz, given, early, deleted, slots, routeVars, pc>>

CustomerBodies == { [shopName |-> <<"A">>], [shopName |-> <<"B">>] }

\* app.post('/api/customers') (index.js:871-879)
PostCustomer(body) ==
    /\ pc = "serve"
    /\ loadPc = "done"
    /\ Len(customers) < MaxCustomers
    /\ CanSave
    /\ LET newCustomer == Spread([id |-> Len(customers) + 1], body)
       IN  SaveCustomers("POST customer", 0, 201, Append(customers, newCustomer))

\* customers.findIndex(customer => customer.id === id): 0 for -1
findCustomerIndex(id) ==
    IF \E i \in 1..Len(customers) : customers[i].id = id
    THEN CHOOSE i \in 1..Len(customers) :
             customers[i].id = id /\ \A k \in 1..(i - 1) : customers[k].id # id
    ELSE 0

\* app.delete('/api/customers/:id') (index.js:894-906)
DeleteCustomer(id) ==
    /\ pc = "serve"
    /\ loadPc = "done"
    /\ LET customerIndex == findCustomerIndex(id)
       IN  IF customerIndex = 0
           THEN Refuse(notFoundEffects("DELETE customer", id))
           ELSE /\ CanSave
                /\ SaveCustomers("DELETE customer", id, 200,
                                 SubSeq(customers, 1, customerIndex - 1)
                                     \o SubSeq(customers, customerIndex + 1, Len(customers)))

\* the ids a customer request may name: those the collection can hold, and one more
CustomerIds == 1..(MaxCustomers + 1)

\* the server after its start-up load, with no customer yet, on either backend
InitCustomers ==
    /\ tz = 0
    /\ now = 0
    /\ pc = "serve"
    /\ isConnected \in BOOLEAN
    /\ loadPc = "done"
    /\ jobs = <<>>
    /\ loadBuf = <<>>
    /\ trace = <<>>
    /\ given = <<>>
    /\ early = 0
    /\ deleted = {}
    /\ faultsLeft = 0
    /\ slots = MaxJobs
    /\ NoRouteRequest
    /\ db = EmptyStore
    /\ file = EmptyStore
    /\ orders = <<>>
    /\ customers = <<>>
    /\ dailySales = <<>>
    /\ weeklySales = <<>>
    /\ predictions = <<>>
    /\ reports = <<>>
    /\ notifications = <<>>

NextCustomers ==
    \/ \E j \in 1..MaxJobs : DbWrite(j)
    \/ \E body \in CustomerBodies : PostCustomer(body)
    \/ \E id \in CustomerIds : DeleteCustomer(id)

SpecCustomers == InitCustomers /\ [][NextCustomers]_vars

-----------------------------------------------------------------------------
(* The notification and sales requests (index.js:1119-1137, 1694-1713) *)

\* Date.now(), in the unit of the model's clock (hours since the epoch)
dateNow(clock) ==
    (EpochDay(ClockBase.y, ClockBase.m, ClockBase.d) + clock) * 24 + ClockBase.h

\* `const data = loadData(); ... saveData({ ...data, [coll]: records })`
\* (index.js:1696-1706, 1121-1131): loadData is async and is not awaited, so
\* data is a promise; data[coll] is undefined and `...data` spreads nothing. The
\* object saved holds the one collection, and saveData writes `data.x || []` for
\* every other collection (index.js:352-358), or the object as it is to the data
\* file (index.js:370), which a later load reads back with `data.x || []`
\* (index.js:109-115). The in-memory collections are not touched.
SavePartial(op, status, coll, records) ==
    \E saved \in {[EmptyStore EXCEPT ![coll] = records]} :
        /\ IF isConnected
           THEN /\ jobs' = Append(jobs, [NewJob EXCEPT !.live = FALSE, !.data = saved])
                /\ trace' = << Effect("request", op, 0, 0, 0),
                               Effect("data-update", op, 0, 0, DeletesPending(NewJob)),
                               Effect("response", op, 0, status, 0) >>
                /\ UNCHANGED <<db, file, faultsLeft>>
           ELSE /\ \E written \in WriteOutcomes :
                       /\ file' = IF written THEN saved ELSE file
                       /\ faultsLeft' = IF written THEN faultsLeft ELSE faultsLeft - 1
                /\ trace' = << Effect("request", op, 0, 0, 0),
                               Effect("data-update", op, 0, 0, 0),
                               Effect("response", op, 0, status, 0) >>
                /\ UNCHANGED <<db, jobs>>
        /\ UNCHANGED <<orders, customers, dailySales, weeklySales, predictions, reports,
                       notifications, isConnected, loadPc, loadBuf, now, tz, given, early,
                       deleted, slots, routeVars, pc>>

NotificationBodies == { [type |-> "info", message |-> "hello"] }

\* app.post('/api/notifications') (index.js:1694-1713)
PostNotification(body) ==
    /\ pc = "serve"
    /\ loadPc = "done"
    /\ CanSave
    /\ LET newNotification ==
               Spread(Spread([id |-> dateNow(now)], body),
                      [timestamp |-> nowIso(now), read |-> FALSE])
       IN  SavePartial("POST notification", 201, "notifications", <<newNotification>>)

DailySaleBodies ==
    { [date |-> <<"2", "0", "2", "4", "-", "0", "1", "-", "0", "2">>, totalRevenue |-> Num(10)],
      [date |-> <<"2", "0", "2", "4", "-", "0", "1", "-", "0", "3">>, totalRevenue |-> Num(20),
       id |-> 7] }

\* app.post('/api/daily-sales') (index.js:1119-1137)
PostDailySales(body) ==
    /\ pc = "serve"
    /\ loadPc = "done"
    /\ CanSave
    /\ LET newDailySale ==
               Spread(Spread([id |-> 1], body), [createdAt |-> nowIso(now)])
       IN  SavePartial("POST daily-sales", 201, "dailySales", <<newDailySale>>)

\* the server after its start-up load, on either backend
InitLoaded ==
    /\ tz = 0
    /\ now = 0
    /\ pc = "serve"
    /\ loadPc = "done"
    /\ jobs = <<>>
    /\ loadBuf = <<>>
    /\ trace = <<>>
    /\ given = <<>>
    /\ early = 0
    /\ deleted = {}
    /\ faultsLeft = 0
    /\ slots = MaxJobs
    /\ NoRouteRequest
    /\ \E store \in InitialStores(tz) :
           /\ \/ isConnected = TRUE /\ db = store /\ file = EmptyStore
              \/ isConnected = FALSE /\ db = EmptyStore /\ file = store
           /\ orders = store.orders
           /\ customers = store.customers
           /\ dailySales = store.dailySales
           /\ weeklySales = store.weeklySales
           /\ predictions = store.predictions
           /\ reports = store.reports
           /\ notifications = store.notifications

\* the notification and sales requests alone
NextNotify ==
    \/ \E j \in 1..MaxJobs : DbWrite(j)
    \/ \E body \in NotificationBodies : PostNotification(body)
    \/ \E body \in DailySaleBodies : PostDailySales(body)

SpecNotify == InitLoaded /\ [][NextNotify]_vars

\* notification requests among the order requests
NextNotes ==
    \/ \E j \in 1..MaxJobs : DbWrite(j)
    \/ \E body \in NotificationBodies : PostNotification(body)
    \/ \E body \in PostBodies : PostOrder(body)
    \/ \E id \in RequestIds, body \in PutBodies : PutOrder(id, body)
    \/ \E id \in RequestIds : DeleteOrder(id)

SpecNotes == InitLoaded /\ [][NextNotes]_vars

-----------------------------------------------------------------------------
(* The order requests with bodies that carry an id *)

IdPostBodies ==
    { [shopName |-> <<"B">>, totalAmount |-> AmtNum(10), paymentMethod |-> "Cash"],
      [id |-> 1, shopName |-> <<"B">>, totalAmount |-> AmtNum(10), paymentMethod |-> "Cash"] }

IdPutBodies == { [id |-> 2], [status |-> "In Process"] }

NextIds ==
    \/ \E j \in 1..MaxJobs : DbWrite(j)
    \/ \E body \in IdPostBodies : PostOrder(body)
    \/ \E id \in RequestIds, body \in IdPutBodies : PutOrder(id, body)
    \/ \E id \in RequestIds : DeleteOrder(id)

SpecIds == InitLoaded /\ [][NextIds]_vars

-----------------------------------------------------------------------------
(* The order requests with saves that overlap *)

\* the load has finished on MongoDB with empty collections, and a request is handled while up to
\* MaxOverlap earlier saves are still writing: the wrapper starts
\* originalSaveData(data) and returns without awaiting it (index.js:1877-1881)
InitOverlap ==
    /\ tz = 0
    /\ now = 0
    /\ pc = "serve"
    /\ loadPc = "done"
    /\ jobs = <<>>
    /\ loadBuf = <<>>
    /\ trace = <<>>
    /\ given = <<>>
    /\ early = 0
    /\ deleted = {}
    /\ faultsLeft = 0
    /\ slots = MaxOverlap
    /\ NoRouteRequest
    /\ isConnected = TRUE
    /\ file = EmptyStore
    /\ db = EmptyStore
    /\ orders = <<>>
    /\ customers = <<>>
    /\ dailySales = <<>>
    /\ weeklySales = <<>>
    /\ predictions = <<>>
    /\ reports = <<>>
    /\ notifications = <<>>

\* creates and deletes, with which the recalculation completes, so that every
\* request that changes the ledger also starts a save; the run is followed up to
\* its first delete of an order and from then on until the saves in flight have
\* finished
NextOverlap ==
    \/ \E j \in 1..MaxOverlap : DbWrite(j)
    \/ deleted = {} /\ \E body \in PostBodies : PostOrder(body)
    \/ deleted = {} /\ \E id \in RequestIds : DeleteOrder(id)

SpecOverlap == InitOverlap /\ [][NextOverlap]_vars

-----------------------------------------------------------------------------
(* loadData on either backend (index.js:65-154) *)

\* if (!order.createdAt) order.createdAt = order.deliveredAt || new Date().toISOString()
\* (index.js:124-129)
backfill(order, clock) ==
    IF hasCreatedAt(order) THEN order
    ELSE Spread(order,
                [createdAt |-> IF Get(order, "deliveredAt", TsUndef).t \in {"iso", "num"}
                               THEN order.deliveredAt ELSE nowIso(clock)])

\* the orders a store may hold from earlier runs and other writers: with a
\* createdAt, without one but delivered, without either, and with a null createdAt
StoredOrders ==
    { [shopName |-> <<"A">>, totalAmount |-> AmtNum(10), status |-> "Pending",
       createdAt |-> Iso(2023, 12, 29, 10), deliveredAt |-> TsNull],
      [shopName |-> <<"A">>, totalAmount |-> AmtNum(10), status |-> "Delivered",
       deliveredAt |-> Iso(2023, 12, 29, 12)],
      [shopName |-> <<"B">>, totalAmount |-> AmtNum(10), status |-> "Pending",
       deliveredAt |-> TsNull],
      [shopName |-> <<"B">>, totalAmount |-> AmtNum(10), status |-> "Delivered",
       createdAt |-> TsNull, deliveredAt |-> Iso(2023, 12, 29, 12)] }

\* the server when the module has been loaded, with a store of up to MaxLedger
\* orders: with MONGODB_URI set the load is waiting for dbService.connect(),
\* without it loadData is about to read the data file
InitLoad ==
    /\ tz = 0
    /\ now = 0
    /\ pc = "serve"
    /\ isConnected = FALSE
    /\ jobs = <<>>
    /\ loadBuf = <<>>
    /\ trace = <<>>
    /\ given = <<>>
    /\ early = 0
    /\ deleted = {}
    /\ faultsLeft = 0
    /\ slots = MaxJobs
    /\ NoRouteRequest
    /\ orders = <<>>
    /\ customers = <<>>
    /\ dailySales = <<>>
    /\ weeklySales = <<>>
    /\ predictions = <<>>
    /\ reports = <<>>
    /\ notifications = <<>>
    /\ \E n \in 0..MaxLedger : \E f \in [1..n -> StoredOrders] :
           \E store \in {[EmptyStore EXCEPT
                             !.orders = [i \in 1..n |-> Spread(f[i], [id |-> i])]]} :
               \/ /\ loadPc = "connect"
                  /\ db = store
                  /\ file = EmptyStore
               \/ /\ loadPc = "file"
                  /\ db = EmptyStore
                  /\ file = store

\* the file branch of loadData and the assignment of its result: the file is
\* read, orders without createdAt are given one, the data is saved when any
\* order was changed, and the collections are assigned (index.js:106-139, 396-405)
LoadFile ==
    /\ pc = "serve"
    /\ loadPc = "file"
    /\ \E loaded \in {[i \in 1..Len(file.orders) |-> backfill(file.orders[i], now)]} :
           /\ orders' = loaded
           /\ file' = IF loaded # file.orders THEN [file EXCEPT !.orders = loaded] ELSE file
    /\ customers' = file.customers
    /\ dailySales' = file.dailySales
    /\ weeklySales' = file.weeklySales
    /\ predictions' = file.predictions
    /\ reports' = file.reports
    /\ notifications' = file.notifications
    /\ loadPc' = "done"
    /\ trace' = <<>>
    /\ UNCHANGED <<isConnected, db, jobs, loadBuf, now, tz, given, early, deleted,
                   faultsLeft, slots, routeVars, pc>>

NextLoad ==
    \/ LoadConnect
    \/ LoadRead
    \/ LoadAssign
    \/ LoadFile

SpecLoad == InitLoad /\ [][NextLoad]_vars

-----------------------------------------------------------------------------
(* POST /api/optimize-route (index.js:667-814) *)

\* A place is a point on a line through the depot, which is at 0, and the
\* distance of two places is the length between them: what the route needs of
\* calculateHaversineDistance (index.js:816-826).
Depot == 0

calculateHaversineDistance(a, b) == Abs(a - b)

\* what the geocoding request of an order can give (index.js:713-737): a first
\* feature with its place, no feature, or an error
GeoOutcomes ==
    { [kind |-> "found", at |-> 1], [kind |-> "found", at |-> 2],
      [kind |-> "none", at |-> 0], [kind |-> "error", at |-> 0] }

NullCoordinates == [found |-> FALSE, at |-> 0]

isActive(order) == Get(order, "status", "") \in {"Pending", "In Process"}

\* the loop over activeOrders (index.js:703-738), for the orders from position i
\* of the list on: an order without postcode is skipped, the others are copied
\* with their coordinates, or with null
RECURSIVE geocodeFrom(_, _)
geocodeFrom(list, i) ==
    IF i > Len(list) THEN <<>>
    ELSE IF ~isActive(list[i]) \/ Get(list[i], "customerPostcode", <<>>) = <<>>
    THEN geocodeFrom(list, i + 1)
    ELSE << Spread(list[i],
                   [coordinates |-> IF geocode[i].kind = "found"
                                    THEN [found |-> TRUE, at |-> geocode[i].at]
                                    ELSE NullCoordinates]) >>
             \o geocodeFrom(list, i + 1)

\* ordersWithDistance.sort((a, b) => a.distanceFromDepot - b.distanceFromDepot):
\* the sort is stable
RECURSIVE sortByDistance(_)
sortByDistance(seq) ==
    IF seq = <<>> THEN <<>>
    ELSE LET rest == sortByDistance(SubSeq(seq, 1, Len(seq) - 1))
             last == seq[Len(seq)]
             k    == Cardinality({j \in 1..Len(rest) :
                                      rest[j].distanceFromDepot <= last.distanceFromDepot})
         IN  SubSeq(rest, 1, k) \o <<last>> \o SubSeq(rest, k + 1, Len(rest))

\* the stops of the route, each with its distance from the stop before it
\* (index.js:772-789)
routeStops(sorted) ==
    [i \in 1..Len(sorted) |->
        Spread(sorted[i],
               [routeDistance |-> calculateHaversineDistance(
                                      IF i = 1 THEN Depot ELSE sorted[i - 1].coordinates.at,
                                      sorted[i].coordinates.at),
                routeOrder    |-> i])]

RECURSIVE totalOf(_)
totalOf(stops) ==
    IF stops = <<>> THEN 0 ELSE Head(stops).routeDistance + totalOf(Tail(stops))

\* the response of the handler for the list it optimises
optimizeRoute(list) ==
    LET activeOrders          == SelectSeq(list, isActive)
        ordersWithCoordinates == geocodeFrom(list, 1)
        validOrders           == SelectSeq(ordersWithCoordinates,
                                           LAMBDA o : o.coordinates.found)
        ordersWithDistance    ==
            [i \in 1..Len(validOrders) |->
                Spread(validOrders[i],
                       [distanceFromDepot |->
                            calculateHaversineDistance(Depot, validOrders[i].coordinates.at)])]
        stops                 == routeStops(sortByDistance(ordersWithDistance))
        ordersWithoutCoordinates == SelectSeq(ordersWithCoordinates,
                                              LAMBDA o : ~o.coordinates.found)
    IN  IF activeOrders = <<>>
        THEN [status |-> 200, route |-> <<>>, totalDistance |-> 0,
              message |-> "No active orders to optimize"]
        ELSE IF ~mapboxToken
        THEN [status |-> 200, route |-> activeOrders, totalDistance |-> 0,
              message |-> "Mapbox token required for full optimization"]
        ELSE IF validOrders = <<>>
        THEN [status |-> 200, route |-> activeOrders, totalDistance |-> 0,
              message |-> "No orders with valid coordinates found"]
        ELSE [status |-> 200, route |-> stops \o ordersWithoutCoordinates,
              totalDistance |-> totalOf(stops),
              message |-> "Route optimized successfully with distance-based sorting"]

\* the orders a route is asked for: every status that matters, with and without
\* a postcode
RouteShapes ==
    { [status |-> st, customerPostcode |-> pcode, shopName |-> <<"A">>] :
          st \in {"Pending", "In Process", "Delivered"},
          pcode \in {<<>>, <<"BH1 1AA">>} }

RouteRequests ==
    { <<>>,
      << [id |-> 9, basketNo |-> 9, status |-> "Pending", customerPostcode |-> <<"BH2 2BB">>],
         [id |-> 8, basketNo |-> 8, status |-> "In Process"] >> }

InitRoute ==
    /\ \E n \in 0..MaxRoute : \E f \in [1..n -> RouteShapes] :
           orders = [i \in 1..n |-> Spread(f[i], [id |-> i, basketNo |-> i])]
    /\ geocode \in [1..MaxRoute -> GeoOutcomes]
    /\ mapboxToken \in BOOLEAN
    /\ routeRes = NoRouteResponse
    /\ routeInput = <<>>
    /\ tz = 0
    /\ now = 0
    /\ pc = "route"
    /\ customers = <<>>
    /\ dailySales = <<>>
    /\ weeklySales = <<>>
    /\ predictions = <<>>
    /\ reports = <<>>
    /\ notifications = <<>>
    /\ isConnected = FALSE
    /\ db = EmptyStore
    /\ file = EmptyStore
    /\ jobs = <<>>
    /\ loadPc = "done"
    /\ loadBuf = <<>>
    /\ trace = <<>>
    /\ given = <<>>
    /\ early = 0
    /\ deleted = {}
    /\ faultsLeft = 0
    /\ slots = MaxJobs

\* app.post('/api/optimize-route') (index.js:667-814)
OptimizeRoute(requestOrders) ==
    /\ pc = "route"
    /\ \E ordersToOptimize \in {IF Len(requestOrders) > 0 THEN requestOrders ELSE orders} :
           /\ routeInput' = ordersToOptimize
           /\ routeRes' = optimizeRoute(ordersToOptimize)
    /\ pc' = "routed"
    /\ UNCHANGED <<orders, customers, dailySales, weeklySales, predictions, reports,
                   notifications, isConnected, db, file, jobs, loadPc, loadBuf, now, tz,
                   trace, given, early, deleted, faultsLeft, slots, mapboxToken, geocode>>

NextRoute == \E requestOrders \in RouteRequests : OptimizeRoute(requestOrders)

SpecRoute == InitRoute /\ [][NextRoute]_vars

-----------------------------------------------------------------------------
(* Properties of a single recalculation *)

\* the member orders of a day bucket and of a week bucket, from the ledger
DayMembers(b) ==
    SelectSeq(orders, LAMBDA o : hasCreatedAt(o) /\ datePart(o.createdAt) = b.date)

WeekMembers(b) ==
    SelectSeq(orders, LAMBDA o : hasCreatedAt(o) /\ getWeekNumber(o.createdAt, tz) = b.week)

\* P holds of every day bucket and every week bucket, given its member orders
EveryBucket(P(_, _)) ==
    /\ \A i \in 1..Len(dailySales) : P(dailySales[i], DayMembers(dailySales[i]))
    /\ \A i \in 1..Len(weeklySales) : P(weeklySales[i], WeekMembers(weeklySales[i]))

SomeBucket(P(_, _)) ==
    \/ \E i \in 1..Len(dailySales) : P(dailySales[i], DayMembers(dailySales[i]))
    \/ \E i \in 1..Len(weeklySales) : P(weeklySales[i], WeekMembers(weeklySales[i]))

\* the exact sum of the parsed amounts of some orders
RECURSIVE AmountSum(_)
AmountSum(members) ==
    IF members = <<>> THEN Num(0)
    ELSE Add(parseAmount(Head(members)), AmountSum(Tail(members)))

\* every amount of the bucket parses to a number
AllNumeric(members) == \A i \in 1..Len(members) : ~parseAmount(members[i]).nan

Le(a, b) == ~a.nan /\ ~b.nan /\ a.num * b.den <= b.num * a.den

NumEq(a, b) == ~a.nan /\ ~b.nan /\ a = b

ShopSum(members, shop) == AmountSum(SelectSeq(members, LAMBDA o : shopOf(o) = shop))

\* the positions, in a sequence of shop names, of the shops no other shop exceeds
MaximalShops(members, shops) ==
    {i \in 1..Len(shops) :
        \A j \in 1..Len(shops) : ~Gt(ShopSum(members, shops[j]), ShopSum(members, shops[i]))}

SetMin(S) == CHOOSE x \in S : \A y \in S : x <= y

SetMax(S) == CHOOSE x \in S : \A y \in S : x >= y

\* the shops of a bucket in the order in which the fold over its orders meets them
ShopsByAppearance(members) == InsertionKeys([i \in 1..Len(members) |-> shopOf(members[i])])

TopShopFirstOfMaximal(b, members) ==
    LET shops == ShopsByAppearance(members)
    IN  (members # <<>> /\ AllNumeric(members))
            => b.topShop = shops[SetMin(MaximalShops(members, shops))]

TopShopLastOfMaximal(b, members) ==
    LET shops == ObjectKeys([i \in 1..Len(members) |-> shopOf(members[i])])
    IN  (members # <<>> /\ AllNumeric(members))
            => b.topShop = shops[SetMax(MaximalShops(members, shops))]

TiedAtTop(b, members) ==
    LET shops == ShopsByAppearance(members)
    IN  AllNumeric(members) /\ Cardinality(MaximalShops(members, shops)) >= 2

\* C5 as stated: topShop has maximal summed revenue in its bucket and, among shops
\* of equal maximal revenue, is the one met first when folding the bucket's orders.
\* Stated here for the buckets whose amounts are all numeric, so that it is the
\* tie-break that decides it.
C5_TopShopFirstWins == pc = "done" => EveryBucket(TopShopFirstOfMaximal)

\* C5 amended: in every day and week bucket whose amounts are all numeric, topShop
\* has maximal summed revenue and, among shops of equal maximal revenue, is the
\* one that comes LAST in the key order of the shop-revenue object.
C5_TopShopLastWins == pc = "done" => EveryBucket(TopShopLastOfMaximal)

C5_Witness == pc = "done" /\ SomeBucket(TiedAtTop)

\* the raw payment method of an order, "" when it has none
RawMethod(o) == Get(o, "paymentMethod", "")

KeyAsStated(o) ==
    CASE RawMethod(o) = "Bank Transfer" -> "Bank"
      [] RawMethod(o) \in {"Balance", "Cash", "Card"} -> RawMethod(o)
      [] OTHER -> ""

KeyAsCoded(o) ==
    CASE RawMethod(o) \in {"Bank Transfer", "Bank"} -> "Bank"
      [] RawMethod(o) \in {"Balance", "Cash", "Card"} -> RawMethod(o)
      [] OTHER -> ""

BreakdownBy(b, members, KeyOf(_)) ==
    /\ DOMAIN b.paymentBreakdown = {"Balance", "Cash", "Card", "Bank"}
    /\ \A k \in DOMAIN b.paymentBreakdown :
           b.paymentBreakdown[k] = AmountSum(SelectSeq(members, LAMBDA o : KeyOf(o) = k))

BreakdownAsStated(b, members) == BreakdownBy(b, members, KeyAsStated)

BreakdownAsCoded(b, members) == BreakdownBy(b, members, KeyAsCoded)

HasBankAndOther(b, members) ==
    /\ \E i \in 1..Len(members) : RawMethod(members[i]) = "Bank"
    /\ \E i \in 1..Len(members) : RawMethod(members[i]) \in {"Bank Transfer", "Crypto", ""}

\* C6 as stated: paymentBreakdown has exactly the keys Balance, Cash, Card, Bank;
\* Bank Transfer adds to Bank, Balance/Cash/Card add to their key, and every other
\* method (or none) adds to no key.
C6_BreakdownAsStated == pc = "done" => EveryBucket(BreakdownAsStated)

\* C6 amended: as stated, except that the method "Bank" adds to Bank as well.
C6_BreakdownWithBank == pc = "done" => EveryBucket(BreakdownAsCoded)

C6_Witness == pc = "done" /\ SomeBucket(HasBankAndOther)

BreakdownTotal(b) ==
    Add(Add(b.paymentBreakdown["Balance"], b.paymentBreakdown["Cash"]),
        Add(b.paymentBreakdown["Card"], b.paymentBreakdown["Bank"]))

NonNegative(members) ==
    \A i \in 1..Len(members) : Le(Num(0), parseAmount(members[i]))

SumAtMostRevenueAsStated(b, members) ==
    NonNegative(members) =>
        /\ Le(BreakdownTotal(b), b.totalRevenue)
        /\ NumEq(BreakdownTotal(b), b.totalRevenue)
               => \A i \in 1..Len(members) :
                      RawMethod(members[i]) \in {"Balance", "Cash", "Card", "Bank Transfer"}

Recognised == {"Balance", "Cash", "Card", "Bank", "Bank Transfer"}

SumAtMostRevenueAmended(b, members) ==
    NonNegative(members) =>
        /\ Le(BreakdownTotal(b), b.totalRevenue)
        /\ NumEq(BreakdownTotal(b), b.totalRevenue)
               <=> \A i \in 1..Len(members) :
                       RawMethod(members[i]) \notin Recognised
                           => parseAmount(members[i]) = Num(0)

EqualDespiteUnrecognised(b, members) ==
    /\ NonNegative(members)
    /\ NumEq(BreakdownTotal(b), b.totalRevenue)
    /\ \E i \in 1..Len(members) : RawMethod(members[i]) \notin Recognised
    /\ \E i \in 1..Len(members) : Gt(parseAmount(members[i]), Num(0))

\* C7 as stated: the four paymentBreakdown values sum to at most totalRevenue, with
\* equality only if every member order's method is Balance, Cash, Card or Bank
\* Transfer. Stated here for the buckets whose amounts are all numbers that are
\* not negative, so that it is the payment methods that decide it.
C7_SumAtMostRevenue == pc = "done" => EveryBucket(SumAtMostRevenueAsStated)

\* C7 amended: in every bucket whose amounts are all non-negative whole numbers,
\* the four values sum to at most totalRevenue, and they sum to exactly
\* totalRevenue if and only if every member order whose method is none of
\* Balance, Cash, Card, Bank, Bank Transfer has amount 0.
C7_SumAtMostRevenueAmended == pc = "done" => EveryBucket(SumAtMostRevenueAmended)

C7_Witness == pc = "done" /\ SomeBucket(EqualDespiteUnrecognised)

\* the amount of an order as the claim counts it: 0 when missing or not a number
AmountOrZero(o) == IF parseAmount(o).nan THEN Num(0) ELSE parseAmount(o)

RECURSIVE AmountOrZeroSum(_)
AmountOrZeroSum(members) ==
    IF members = <<>> THEN Num(0)
    ELSE Add(AmountOrZero(Head(members)), AmountOrZeroSum(Tail(members)))

RevenueCountsNonNumericAsZero(b, members) == b.totalRevenue = AmountOrZeroSum(members)

\* C8: totalRevenue of every bucket is the sum of the numeric totalAmount of its
\* orders, a missing or non-numeric totalAmount counting as 0.
C8_RevenueIsNumericSum == pc = "done" => EveryBucket(RevenueCountsNonNumericAsZero)

CountOf(members, status) ==
    Cardinality({i \in 1..Len(members) : Get(members[i], "status", "") = status})

Counted == {"Delivered", "Pending", "In Process"}

CountsByStatus(b, members) ==
    /\ b.deliveredOrders = CountOf(members, "Delivered")
    /\ b.pendingOrders = CountOf(members, "Pending")
    /\ b.inProcessOrders = CountOf(members, "In Process")
    /\ b.totalOrders = b.deliveredOrders + b.pendingOrders + b.inProcessOrders
           + Cardinality({i \in 1..Len(members) :
                              Get(members[i], "status", "") \notin Counted})

HasUncounted(b, members) ==
    /\ \E i \in 1..Len(members) : Get(members[i], "status", "") = "Cancelled"
    /\ \E i \in 1..Len(members) : Get(members[i], "status", "") \in Counted

\* C9: deliveredOrders, pendingOrders and inProcessOrders count the member orders
\* whose status is exactly Delivered, Pending and In Process, and totalOrders is
\* their sum plus the number of member orders of any other status.
C9_CountsByStatus == pc = "done" => EveryBucket(CountsByStatus)

C9_Witness == pc = "done" /\ SomeBucket(HasUncounted)

\* the week number written in a week key: the digits after the W
RECURSIVE AfterW(_)
AfterW(week) ==
    IF week = <<>> THEN <<>>
    ELSE IF Head(week) = "W" THEN Tail(week) ELSE AfterW(Tail(week))

\* C10: the id of every weekly bucket is the week number of its key, the year
\* discarded (key 2024-W7 gives id 7).
C10_WeeklyIdIsWeekNumber ==
    pc = "done" =>
        \A i \in 1..Len(weeklySales) :
            weeklySales[i].id = Num(DigitsValue(AfterW(weeklySales[i].week), 0))

WithoutDate(rs) == [i \in 1..Len(rs) |-> [f \in DOMAIN rs[i] \ {"date"} |-> rs[i][f]]]

\* C4: a second recalculateAnalytics call on the ledger the first call was given,
\* at whatever later time, returns the dailySales, weeklySales, predictions and
\* reports (the report's date aside) the first call returned, and the first call
\* left the ledger it was given as it was.
C4_RecalculateIdempotent ==
    pc = "done" =>
        /\ orders = given
        /\ \A c \in 0..MaxClock :
               LET again == recalculateAnalytics(orders, c, tz)
               IN  /\ ~again.threw
                   /\ again.dailySales = dailySales
                   /\ again.weeklySales = weeklySales
                   /\ again.predictions = predictions
                   /\ WithoutDate(again.reports) = WithoutDate(reports)

C4_Witness ==
    /\ pc = "done"
    /\ Len(weeklySales) >= 2
    /\ \E c \in 0..MaxClock : recalculateAnalytics(orders, c, tz).reports # reports

\* the sum of totalOrders over a sequence of buckets
RECURSIVE TotalOrdersSum(_)
TotalOrdersSum(buckets) ==
    IF buckets = <<>> THEN 0
    ELSE Head(buckets).totalOrders + TotalOrdersSum(Tail(buckets))

Dated == SelectSeq(orders, hasCreatedAt)

\* C11: every order that has a createdAt is in exactly one day bucket, the one
\* keyed by the date part of its createdAt, and in exactly one week bucket; an
\* order without createdAt is in none: every bucket counts exactly the dated
\* orders of its key, and the totalOrders of the day buckets, and of the week
\* buckets, sum to the number of orders that have a createdAt.
C11_EveryDatedOrderInOneBucket ==
    pc = "done" =>
        /\ \A i \in 1..Len(Dated) :
               /\ Cardinality({k \in 1..Len(dailySales) :
                                   dailySales[k].date = datePart(Dated[i].createdAt)}) = 1
               /\ Cardinality({k \in 1..Len(weeklySales) :
                                   weeklySales[k].week
                                       = getWeekNumber(Dated[i].createdAt, tz)}) = 1
        /\ \A k \in 1..Len(dailySales) :
               /\ dailySales[k].totalOrders = Len(DayMembers(dailySales[k]))
               /\ dailySales[k].totalOrders > 0
        /\ \A k \in 1..Len(weeklySales) :
               /\ weeklySales[k].totalOrders = Len(WeekMembers(weeklySales[k]))
               /\ weeklySales[k].totalOrders > 0
        /\ TotalOrdersSum(dailySales) = Len(Dated)
        /\ TotalOrdersSum(weeklySales) = Len(Dated)

C11_Witness ==
    /\ pc = "done"
    /\ Len(Dated) = 1
    /\ Len(orders) = 2
    /\ Len(dailySales) = 1

\* ISO 8601, from its definition: the week of a day runs from its Monday to its
\* Sunday and belongs to the year of its Thursday; its number is the number of
\* Thursdays of that year up to and including its own
IsoWeek(day) ==
    LET monday   == CHOOSE m \in (day - 6)..day : UTCDay(m) = 1
        thursday == monday + 3
        year     == CivilFromDays(thursday).y
    IN  [year |-> year,
         week |-> Cardinality({t \in DaysBeforeYear(year)..thursday : UTCDay(t) = 4})]

IsoWeekKey(day) ==
    NatToString(IsoWeek(day).year) \o <<"-", "W">> \o NatToString(IsoWeek(day).week)

\* the calendar day getWeekNumber is given: the order's createdAt in the time zone
\* of the process
CreatedDay == LocalEpochDay(orders[1].createdAt, tz)

\* C12: the week key of every calendar date is its ISO-8601 week-numbering year
\* and week number; 2024-01-01 gives 2024-W1, and 2023-01-01, which lies in the
\* last ISO week of 2022, gives 2022-W52.
C12_WeekKeyIsIsoWeek ==
    pc = "done" =>
        /\ Len(weeklySales) = 1
        /\ weeklySales[1].week = IsoWeekKey(CreatedDay)
        /\ CreatedDay = EpochDay(2024, 1, 1)
               => weeklySales[1].week = <<"2", "0", "2", "4", "-", "W", "1">>
        /\ CreatedDay = EpochDay(2023, 1, 1)
               => weeklySales[1].week = <<"2", "0", "2", "2", "-", "W", "5", "2">>

C12_Witness ==
    /\ pc = "done"
    /\ CreatedDay = EpochDay(2027, 1, 3)
    /\ weeklySales[1].week = <<"2", "0", "2", "6", "-", "W", "5", "3">>

\* 1.1 times a number, exactly
ElevenTenths(a) == IF a.nan THEN NaN ELSE Ratio(11 * a.num, 10 * a.den)

\* C13: the recalculation produces exactly one prediction, with confidence 85 and
\* predictedValue 1.1 times the totalRevenue of the last day bucket, or 850 when
\* there is no day bucket.
C13_OnePrediction ==
    pc = "done" =>
        /\ Len(predictions) = 1
        /\ predictions[1].confidence = 85
        /\ predictions[1].predictedValue =
               IF Len(dailySales) = 0 THEN Num(850)
               ELSE ElevenTenths(dailySales[Len(dailySales)].totalRevenue)

C13_Witness ==
    /\ pc = "done"
    /\ Len(dailySales) = 2
    /\ ~dailySales[1].totalRevenue.nan
    /\ Gt(dailySales[2].totalRevenue, dailySales[1].totalRevenue)
    /\ predictions[1].predictedValue = Num(22)

\* the place of a week key "<year>-W<week>" in the order of the calendar
WeekRank(key) ==
    LET year == DigitPrefix(key)
    IN  DigitsValue(year, 0) * 100 + DigitsValue(SubSeq(key, Len(year) + 3, Len(key)), 0)

\* the week bucket of the latest ISO week that has an order
LatestWeek ==
    CHOOSE k \in 1..Len(weeklySales) :
        \A j \in 1..Len(weeklySales) :
            WeekRank(weeklySales[j].week) <= WeekRank(weeklySales[k].week)

\* C14: the recalculation produces exactly one report, whose totalRevenue,
\* totalOrders, averageOrderValue, topShop and paymentBreakdown are those of the
\* week bucket of the latest ISO week present in the ledger, or 0, 0, 0, N/A and
\* an all-zero breakdown when there is no week bucket. (A bucket whose revenue is
\* not a number, or whose top shop is the empty name, is not held against the
\* report here.)
C14_ReportOfLatestWeek ==
    pc = "done" =>
        /\ Len(reports) = 1
        /\ IF Len(weeklySales) = 0
           THEN /\ reports[1].totalRevenue = Num(0)
                /\ reports[1].totalOrders = 0
                /\ reports[1].averageOrderValue = Num(0)
                /\ reports[1].topShop = <<"N", "/", "A">>
                /\ \A k \in DOMAIN reports[1].paymentBreakdown :
                       reports[1].paymentBreakdown[k] = Num(0)
           ELSE \A b \in {weeklySales[LatestWeek]} :
                    /\ b.totalRevenue.nan \/ reports[1].totalRevenue = b.totalRevenue
                    /\ reports[1].totalOrders = b.totalOrders
                    /\ b.averageOrderValue.nan
                           \/ reports[1].averageOrderValue = b.averageOrderValue
                    /\ b.topShop = <<>> \/ reports[1].topShop = b.topShop
                    /\ reports[1].paymentBreakdown = b.paymentBreakdown

\* C15: the recalculation yields at most one notification: exactly one, whose
\* message is 'Order #<id> delivered successfully' for the id of the order in the
\* last position of the ledger, when that order's status is Delivered, and none
\* otherwise, an empty ledger included.
C15_NotificationForLastOrder ==
    pc = "done" =>
        /\ Len(notifications) <= 1
        /\ IF Len(orders) > 0 /\ "status" \in DOMAIN orders[Len(orders)]
                 /\ orders[Len(orders)].status = "Delivered"
           THEN /\ Len(notifications) = 1
                /\ notifications[1].message =
                       <<"Order #">> \o NatToString(orders[Len(orders)].id)
                           \o <<" delivered successfully">>
           ELSE notifications = <<>>

C15_Witness ==
    /\ pc = "done"
    /\ Len(orders) = 2
    /\ orders[1].status = "Delivered"
    /\ orders[2].status = "Delivered"
    /\ Len(notifications) = 1
    /\ notifications[1].message = <<"Order #", "2", " delivered successfully">>

\* C21: recalculateAnalytics never throws because of a malformed order: the call
\* returns, whatever the orders of the ledger hold.
C21_RecalculateNeverThrows == pc # "threw"

-----------------------------------------------------------------------------
(* Properties of the server *)

Response == trace[Len(trace)]

Request == trace[1]

EventsOf(kind) == {i \in 1..Len(trace) : trace[i].kind = kind}

\* the in-memory derived collections are what recalculateAnalytics returns for the
\* in-memory ledger now, the report's date aside
DerivedMatchLedger ==
    \A r \in {recalculateAnalytics(orders, now, tz)} :
        /\ ~r.threw
        /\ dailySales = r.dailySales
        /\ weeklySales = r.weeklySales
        /\ predictions = r.predictions
        /\ WithoutDate(reports) = WithoutDate(r.reports)

\* C1: when an order create, update or delete request has completed, whatever
\* its response, the in-memory dailySales, weeklySales, predictions and reports
\* (the report's date aside) equal recalculateAnalytics of the in-memory ledger.
\* Stated here for the requests that found their order, so that a request
\* answered 404 before anything was recalculated does not decide it.
C1_DerivedMatchLedger ==
    (trace # <<>> /\ Response.status # 404) => DerivedMatchLedger

\* C2: the data-update and order-updated events of an order mutation are emitted
\* only when every storage write of the mutation's saveData call has completed.
C2_EventsAfterWrites ==
    \A i \in 1..Len(trace) :
        trace[i].kind \in {"data-update", "order-updated"} => trace[i].writesPending = 0

\* the id of the order a successful request created, updated or deleted
SubjectId ==
    IF Request.op = "POST" THEN orders[Len(orders)].id ELSE Request.orderId

\* C3: a successful create, update or delete emits exactly one order-updated
\* event, with the id of its order, after the recalculation has replaced the
\* derived collections and before the response; a request answered 404 emits none.
C3_OneOrderUpdated ==
    trace # <<>> =>
        /\ Response.kind = "response"
        /\ Response.status \in {200, 201} =>
               /\ Cardinality(EventsOf("order-updated")) = 1
               /\ \A i \in EventsOf("order-updated") :
                      /\ trace[i].orderId = SubjectId
                      /\ \E j \in EventsOf("recalculated") : j < i
                      /\ \A k \in EventsOf("response") : i < k
               /\ DerivedMatchLedger
        /\ Response.status = 404 => EventsOf("order-updated") = {}

C3_Witness ==
    /\ Len(trace) > 2
    /\ Request.op = "PUT"
    /\ Request.orderId = MaxOrders
    /\ Response.status = 200
    /\ isConnected
    /\ Len(orders) = MaxOrders

\* C16: the ids that successive creates assign are strictly increasing, so the id
\* of a deleted order is never assigned again: no order of the ledger carries the
\* id of an order that a delete request removed.
C16_DeletedIdNeverAssignedAgain ==
    loadPc = "done" => \A i \in 1..Len(orders) : orders[i].id \notin deleted

\* the step is the handling of an update request
UpdateStep == trace' # <<>> /\ trace'[1].op = "PUT"

\* C17: an update request, whatever its body holds, leaves the createdAt, the
\* basketNo and the deliveryNo of every order as they were.
C17_CreationFieldsNeverChange ==
    [][UpdateStep =>
           /\ Len(orders') = Len(orders)
           /\ \A i \in 1..Len(orders) :
                  /\ Get(orders'[i], "createdAt", TsUndef) = Get(orders[i], "createdAt", TsUndef)
                  /\ Get(orders'[i], "basketNo", 0) = Get(orders[i], "basketNo", 0)
                  /\ Get(orders'[i], "deliveryNo", <<>>) = Get(orders[i], "deliveryNo", <<>>)]_vars

\* the order has a deliveredAt
Stamped(order) == Get(order, "deliveredAt", TsUndef).t \in {"iso", "num"}

\* C18: an update changes the deliveredAt or the deliveryNotes of an order only
\* when it moves the order from Pending or In Process to Delivered and the order
\* has no deliveredAt yet; setting Delivered on an order that is Delivered already,
\* and an update to any other status, leave both as they were.
C18_StampOnlyOnDelivery ==
    [][UpdateStep =>
           /\ Len(orders') = Len(orders)
           /\ \A i \in 1..Len(orders) :
                  \/ /\ Get(orders'[i], "deliveredAt", TsUndef)
                            = Get(orders[i], "deliveredAt", TsUndef)
                     /\ Get(orders'[i], "deliveryNotes", "")
                            = Get(orders[i], "deliveryNotes", "")
                  \/ /\ Get(orders[i], "status", "") \in {"Pending", "In Process"}
                     /\ Get(orders'[i], "status", "") = "Delivered"
                     /\ ~Stamped(orders[i])]_vars

\* C24: an update is a partial-field merge: it leaves every field of the order
\* that is absent from the request body as it was, except deliveredAt and
\* deliveryNotes when the body sets status to Delivered. Stated for every order
\* and some body the request may have carried.
C24_AbsentFieldsUnchanged ==
    [][UpdateStep =>
           /\ Len(orders') = Len(orders)
           /\ \A i \in 1..Len(orders) : \E body \in PutBodies :
                  \A f \in DOMAIN orders[i] \ DOMAIN body :
                      \/ /\ f \in {"deliveredAt", "deliveryNotes"}
                         /\ Get(body, "status", "") = "Delivered"
                      \/ /\ f \in DOMAIN orders'[i]
                         /\ orders'[i][f] = orders[i][f]]_vars

\* C25: an order create, update or delete request that is answered with an error
\* status, 404 or 500, leaves the in-memory ledger exactly as it was.
C25_ErrorLeavesLedger ==
    [][(/\ trace' # <<>>
        /\ trace'[1].op \in {"POST", "PUT", "DELETE"}
        /\ trace'[Len(trace')].status \in {404, 500}) => orders' = orders]_vars

\* C27: an order that is in the in-memory ledger, by a create answered 201 or by
\* the load, stays in it until a delete request for its id: a step that is not a
\* request keeps every order as it is, and a request keeps every order's id
\* unless it is the delete of that id.
C27_CreatedOrderStays ==
    [][\A i \in 1..Len(orders) :
           IF trace' = <<>>
           THEN \E k \in 1..Len(orders') : orders'[k] = orders[i]
           ELSE \/ orders[i].id \in {orders'[k].id : k \in 1..Len(orders')}
                \/ /\ trace'[1].op = "DELETE"
                   /\ trace'[1].orderId = orders[i].id]_vars

\* C29: after any sequence of order create, update and delete requests, with
\* bodies that may carry an id field, no two orders of the in-memory ledger
\* share an id.
C29_NoTwoOrdersShareAnId ==
    \A i, j \in 1..Len(orders) : i # j => orders[i].id # orders[j].id

\* C28: when the saves of order requests overlap and every storage write has
\* finished without failure, the persisted orders collection holds exactly the
\* orders of the in-memory ledger (no write fails in this specification; the
\* statement is checked for the orders held, however often each is stored).
C28_OverlappingSavesConverge ==
    (isConnected /\ loadPc = "done" /\ jobs = <<>> /\ faultsLeft = 0)
        => {db.orders[i] : i \in 1..Len(db.orders)} = {orders[i] : i \in 1..Len(orders)}

-----------------------------------------------------------------------------
(* Properties of the customer requests *)

\* C19: an id given to one customer is never given to a customer created later,
\* so no two customers of the collection share an id.
C19_NoTwoCustomersShareAnId ==
    \A i, j \in 1..Len(customers) : i # j => customers[i].id # customers[j].id

-----------------------------------------------------------------------------
(* Properties of the start-up load *)

\* C20: when loadData has completed and its result has been assigned, on the
\* document store as on the file, every order of the ledger has a createdAt
\* that is not null.
C20_EveryLoadedOrderHasCreatedAt ==
    loadPc = "done" => \A i \in 1..Len(orders) : hasCreatedAt(orders[i])

-----------------------------------------------------------------------------
(* Properties of the order requests on failing storage *)

\* the in-memory collections
Memory == <<orders, customers, dailySales, weeklySales, predictions, reports, notifications>>

\* the ids of the orders of a ledger
IdsOf(ledger) == {ledger[i].id : i \in 1..Len(ledger)}

\* C22: when a storage write fails while an order create, update or delete is
\* persisted, the failure is caught: the request answers with its success status
\* and the in-memory ledger and derived collections keep the mutation. A write
\* that fails after the response (document store) leaves the memory as it is; a
\* write that fails inside the request (data file) leaves the request's ledger
\* change and the derived collections recalculated from it in memory.
C22_FailedWriteKeepsMutation ==
    [][faultsLeft' < faultsLeft =>
           IF trace' = <<>>
           THEN Memory' = Memory
           ELSE /\ trace'[Len(trace')].kind = "response"
                /\ trace'[Len(trace')].status = (IF trace'[1].op = "POST" THEN 201 ELSE 200)
                /\ \/ /\ trace'[1].op = "POST"
                      /\ SubSeq(orders', 1, Len(orders)) = orders
                      /\ Len(orders') = Len(orders) + 1
                   \/ /\ trace'[1].op = "PUT"
                      /\ Len(orders') = Len(orders)
                      /\ trace'[1].orderId \in IdsOf(orders')
                   \/ /\ trace'[1].op = "DELETE"
                      /\ Len(orders') = Len(orders) - 1
                      /\ trace'[1].orderId \notin IdsOf(orders')
                /\ \A r \in {recalculateAnalytics(orders', now, tz)} :
                       /\ dailySales' = r.dailySales
                       /\ weeklySales' = r.weeklySales
                       /\ predictions' = r.predictions
                       /\ reports' = r.reports
                       /\ notifications' = r.notifications]_vars

C22_Witness ==
    /\ \E i \in 1..Len(trace) : trace[i].kind = "save-failed"
    /\ trace[1].op = "POST"
    /\ trace[Len(trace)].status = 201
    /\ Len(orders) = Len(file.orders) + 1
    /\ Len(dailySales) > Len(file.dailySales)

-----------------------------------------------------------------------------
(* Properties of the notification and sales requests *)

\* the notifications that requests created
UserNotifications ==
    { Spread(Spread([id |-> dateNow(now)], body), [timestamp |-> nowIso(now), read |-> FALSE]) :
          body \in NotificationBodies }

InSeq(x, seq) == \E i \in 1..Len(seq) : seq[i] = x

\* the notification is stored: it is in the data file, in the document store, in
\* the in-memory collection or in a save that has not finished
Stored(n) ==
    \/ InSeq(n, file.notifications)
    \/ InSeq(n, db.notifications)
    \/ InSeq(n, notifications)
    \/ \E j \in 1..Len(jobs) : InSeq(n, Content(jobs[j], "notifications"))

\* C23: user-created notifications are append-only: a notification that a
\* request created and that is stored is still stored after every later request,
\* a POST /api/notifications as well as an order create, update or delete.
C23_UserNotificationsKept ==
    [][\A n \in UserNotifications : Stored(n) => Stored(n)']_vars

\* C26: the notification and sales requests never change the persisted orders
\* and customers collections, in the document store or in the data file.
C26_OrdersAndCustomersUntouched ==
    [][/\ db'.orders = db.orders
       /\ db'.customers = db.customers
       /\ file'.orders = file.orders
       /\ file'.customers = file.customers]_vars

-----------------------------------------------------------------------------
(* Properties of route optimisation *)

\* C30: the route of the response holds every active order of the input, those
\* whose status is Pending or In Process, exactly once, and no other order,
\* whatever the orders' postcodes and whatever geocoding gave for each.
C30_RouteIsTheActiveOrders ==
    pc = "routed" =>
        /\ \A i \in 1..Len(routeInput) :
               Get(routeInput[i], "status", "") \in {"Pending", "In Process"}
                   => Cardinality({k \in 1..Len(routeRes.route) :
                                       routeRes.route[k].id = routeInput[i].id}) = 1
        /\ \A k \in 1..Len(routeRes.route) :
               \E i \in 1..Len(routeInput) :
                   /\ routeInput[i].id = routeRes.route[k].id
                   /\ Get(routeInput[i], "status", "") \in {"Pending", "In Process"}

====
